---- MODULE Spec2Model ----
(***************************************************************************)
(* sicom: the pack transcoding pipeline of compress_pack (src/main.rs),    *)
(* with the helpers of image.rs, audio.rs and video.rs it calls.           *)
(*                                                                         *)
(* Text (entry paths, the text of content.xml) is a sequence of            *)
(* one-character strings; entry data is a sequence of bytes.               *)
(***************************************************************************)
EXTENDS Integers, Sequences, FiniteSets, TLC

(***************************************************************************)
(* Bounds of the model.                                                    *)
(***************************************************************************)
\* the largest number of entries of a source archive
MaxEntries == 3
\* the number of bytes of every media / other entry of the source archive
DataLen == 2

(***************************************************************************)
(* Text helpers: the str / Path operations the code uses.                  *)
(***************************************************************************)
None == [some |-> FALSE]
Some(x) == [some |-> TRUE, val |-> x]

\* str::starts_with
StartsWith(s, p) ==
    /\ Len(p) <= Len(s)
    /\ \A k \in 1..Len(p) : s[k] = p[k]

\* does pattern p occur in s at position i (1-based)
MatchAt(s, p, i) ==
    /\ i + Len(p) - 1 <= Len(s)
    /\ \A k \in 1..Len(p) : s[i + k - 1] = p[k]

\* str::strip_prefix(p).unwrap_or(s)
StripPrefixOr(s, p) ==
    IF StartsWith(s, p) THEN SubSeq(s, Len(p) + 1, Len(s)) ELSE s

\* the last position of character c in s, 0 when there is none
LastIndexOf(s, c) ==
    LET hits == {k \in 1..Len(s) : s[k] = c}
    IN  IF hits = {} THEN 0 ELSE CHOOSE k \in hits : \A j \in hits : j <= k

\* char::to_lowercase on the letters of the model's alphabet
LowerChar(c) ==
    CASE c = "J" -> "j"
      [] c = "P" -> "p"
      [] c = "G" -> "g"
      [] c = "M" -> "m"
      [] c = "W" -> "w"
      [] c = "E" -> "e"
      [] c = "B" -> "b"
      [] c = "N" -> "n"
      [] c = "V" -> "v"
      [] c = "X" -> "x"
      [] c = "O" -> "o"
      [] c = "A" -> "a"
      [] c = "I" -> "i"
      [] c = "K" -> "k"
      [] OTHER -> c

\* a comparison that keeps the letter case
KeepCase(s) == s

\* str::to_lowercase
ToLower(s) == [k \in 1..Len(s) |-> LowerChar(s[k])]

\* Path::file_name: the last component, trailing separators dropped;
\* none for an empty path and for a path ending in ".."
RECURSIVE TrimSlashes(_)
TrimSlashes(s) ==
    IF Len(s) > 0 /\ s[Len(s)] = "/" THEN TrimSlashes(SubSeq(s, 1, Len(s) - 1))
    ELSE s

FileName(path) ==
    LET t == TrimSlashes(path)
        n == SubSeq(t, LastIndexOf(t, "/") + 1, Len(t))
    IN  IF n = << >> \/ n = <<".", ".">> THEN None ELSE Some(n)

\* Path::extension: the part of the file name after its last dot; none when
\* the name has no dot or only a leading one
PathExtension(path) ==
    LET f == FileName(path)
    IN  IF ~f.some THEN None
        ELSE LET d == LastIndexOf(f.val, ".")
             IN  IF d <= 1 THEN None
                 ELSE Some(SubSeq(f.val, d + 1, Len(f.val)))

\* the characters of a string literal of the source, one element each
ImagesDir == <<"I", "m", "a", "g", "e", "s", "/">>
AudioDir == <<"A", "u", "d", "i", "o", "/">>
VideoDir == <<"V", "i", "d", "e", "o", "/">>
ContentXmlName == <<"c", "o", "n", "t", "e", "n", "t", ".", "x", "m", "l">>
ExtWebp == <<"w", "e", "b", "p">>
ExtSiq == <<"s", "i", "q">>

(***************************************************************************)
(* Entry classification (image.rs, audio.rs, video.rs, main.rs 564-568).   *)
(***************************************************************************)
ImageExtensions ==
    {<<"j", "p", "g">>, <<"j", "p", "e", "g">>, <<"p", "n", "g">>, ExtWebp}
AudioExtensions == {<<"m", "p", "3">>}
VideoExtensions ==
    {<<"m", "p", "4">>, <<"m", "o", "v">>, <<"a", "v", "i">>, <<"m", "k", "v">>,
     <<"w", "m", "v">>, <<"w", "e", "b", "m">>}
\* the extensions detect_video_format maps to a VideoFormat
VideoFormats ==
    {<<"m", "p", "4">>, <<"m", "o", "v">>, <<"a", "v", "i">>, <<"m", "k", "v">>}

HasExtensionIn(filename, exts) ==
    LET e == PathExtension(filename)
    IN  e.some /\ ToLower(e.val) \in exts

is_supported_image(filename) == HasExtensionIn(filename, ImageExtensions)
is_supported_audio(filename) == HasExtensionIn(filename, AudioExtensions)
is_supported_video(filename) == HasExtensionIn(filename, VideoExtensions)
detect_audio_format(filename) == HasExtensionIn(filename, AudioExtensions)
\* a detection that gives every supported extension a format
detect_video_format_wmv_webm(filename) == HasExtensionIn(filename, VideoExtensions)
detect_video_format(filename) == HasExtensionIn(filename, VideoFormats)

is_image(file_name) == StartsWith(file_name, ImagesDir) /\ is_supported_image(file_name)
is_audio(file_name) == StartsWith(file_name, AudioDir) /\ is_supported_audio(file_name)
is_video(file_name) == StartsWith(file_name, VideoDir) /\ is_supported_video(file_name)
is_content_xml(file_name) == file_name = ContentXmlName

\* the branch of the if / else-if chain of the loop body an entry takes
Kind(file_name) ==
    CASE is_content_xml(file_name) -> "Manifest"
      [] ~is_content_xml(file_name) /\ is_image(file_name) -> "Image"
      [] ~is_content_xml(file_name) /\ ~is_image(file_name) /\ is_audio(file_name) -> "Audio"
      [] ~is_content_xml(file_name) /\ ~is_image(file_name) /\ ~is_audio(file_name)
            /\ is_video(file_name) -> "Video"
      [] OTHER -> "Other"

\* image::to_webp_filename: the path with its extension replaced by webp
to_webp_filename(file_name) ==
    LET e == PathExtension(file_name)
    IN  IF e.some
        THEN SubSeq(file_name, 1, Len(file_name) - Len(e.val)) \o ExtWebp
        ELSE file_name \o <<".">> \o ExtWebp

(***************************************************************************)
(* Percent encoding (urlencoding::encode / decode, main.rs 942-956).       *)
(***************************************************************************)
\* encode: every byte but ASCII letters, digits and - _ . ~ becomes %XX
EncodeChar(c) ==
    CASE c = " " -> <<"%", "2", "0">>
      [] c = "%" -> <<"%", "2", "5">>
      [] c = "/" -> <<"%", "2", "F">>
      [] c = "\"" -> <<"%", "2", "2">>
      [] c = "'" -> <<"%", "2", "7">>
      [] c = "<" -> <<"%", "3", "C">>
      [] c = "=" -> <<"%", "3", "D">>
      [] c = ">" -> <<"%", "3", "E">>
      [] OTHER -> <<c>>

RECURSIVE UrlEncode(_)
UrlEncode(s) ==
    IF s = << >> THEN << >> ELSE EncodeChar(Head(s)) \o UrlEncode(Tail(s))

IsHexDigit(c) ==
    c \in {"0", "1", "2", "3", "4", "5", "6", "7", "8", "9",
           "a", "b", "c", "d", "e", "f", "A", "B", "C", "D", "E", "F"}

\* the character of the byte written %hl, for the bytes the model's texts use
DecodedChar(h, l) ==
    LET u == <<h, IF l \in {"a", "b", "c", "d", "e", "f"}
                  THEN CASE l = "a" -> "A" [] l = "b" -> "B" [] l = "c" -> "C"
                         [] l = "d" -> "D" [] l = "e" -> "E" [] OTHER -> "F"
                  ELSE l>>
    IN  CASE u = <<"2", "0">> -> " "
          [] u = <<"2", "5">> -> "%"
          [] u = <<"2", "F">> -> "/"
          [] u = <<"2", "2">> -> "\""
          [] u = <<"2", "7">> -> "'"
          [] u = <<"2", "E">> -> "."
          [] u = <<"3", "C">> -> "<"
          [] u = <<"3", "D">> -> "="
          [] u = <<"3", "E">> -> ">"
          [] u = <<"3", "1">> -> "1"
          [] OTHER -> "?"

\* decode: %XX with two hex digits becomes the byte; a % that does not start
\* such a triple is kept as it is
RECURSIVE UrlDecode(_)
UrlDecode(s) ==
    IF s = << >> THEN << >>
    ELSE IF Head(s) # "%" THEN <<Head(s)>> \o UrlDecode(Tail(s))
    ELSE IF Len(s) < 3 THEN s
    ELSE IF ~IsHexDigit(s[2]) THEN <<"%">> \o UrlDecode(Tail(s))
    ELSE IF ~IsHexDigit(s[3]) THEN <<"%", s[2]>> \o UrlDecode(SubSeq(s, 3, Len(s)))
    ELSE <<DecodedChar(s[2], s[3])>> \o UrlDecode(SubSeq(s, 4, Len(s)))

\* the three encoding variations of a bare filename
Variations(filename) == <<filename, UrlDecode(filename), UrlEncode(filename)>>

(***************************************************************************)
(* Literal search and replace (str::matches().count(), str::replace).      *)
(***************************************************************************)
\* every position where p occurs in s (occurrences can overlap)
Occurrences(s, p) ==
    {i \in 1..(Len(s) - Len(p) + 1) : s[i] = p[1] /\ MatchAt(s, p, i)}

\* the matches str::matches and str::replace find: left to right, each search
\* resuming after the end of the previous match
RECURSIVE MatchesFrom(_, _, _)
MatchesFrom(occ, plen, from) ==
    LET rest == {i \in occ : i >= from}
    IN  IF rest = {} THEN << >>
        ELSE LET m == CHOOSE i \in rest : \A j \in rest : i <= j
             IN  <<m>> \o MatchesFrom(rest, plen, m + plen)

Matches(s, p) == MatchesFrom(Occurrences(s, p), Len(p), 1)

\* str::matches(p).count()
MatchCount(s, p) == Len(Matches(s, p))

\* s with the matches at positions ms[k..] replaced by r, from position i on
RECURSIVE Splice(_, _, _, _, _, _)
Splice(s, plen, r, ms, k, i) ==
    IF k > Len(ms) THEN SubSeq(s, i, Len(s))
    ELSE SubSeq(s, i, ms[k] - 1) \o r \o Splice(s, plen, r, ms, k + 1, ms[k] + plen)

\* str::replace(p, r)
ReplaceAll(s, p, r) == Splice(s, Len(p), r, Matches(s, p), 1, 1)

(***************************************************************************)
(* The reference rewriting pass over content.xml (main.rs 934-1019).       *)
(***************************************************************************)
IsRefDq == <<"i", "s", "R", "e", "f", "=", "\"", "T", "r", "u", "e", "\"", ">">>
IsRefSq == <<"i", "s", "R", "e", "f", "=", "'", "T", "r", "u", "e", "'", ">">>
TypeImage == <<"t", "y", "p", "e", "=", "\"", "i", "m", "a", "g", "e", "\"", " ">>

\* the six (old_pattern, new_pattern) pairs of one pair of variations
Patterns(orig_var, webp_var) ==
    << <<orig_var, webp_var>>,
       <<IsRefDq \o orig_var, IsRefDq \o webp_var>>,
       <<TypeImage \o IsRefDq \o orig_var, TypeImage \o IsRefDq \o webp_var>>,
       <<IsRefSq \o orig_var, IsRefSq \o webp_var>>,
       <<ImagesDir \o orig_var, ImagesDir \o webp_var>>,
       <<IsRefDq \o ImagesDir \o orig_var, IsRefDq \o ImagesDir \o webp_var>> >>

\* the patterns of one rename record in the order the nested loops visit them
RecordPatterns(original_path, webp_path) ==
    LET ov == Variations(StripPrefixOr(original_path, ImagesDir))
        wv == Variations(StripPrefixOr(webp_path, ImagesDir))
    IN  Patterns(ov[1], wv[1]) \o Patterns(ov[1], wv[2]) \o Patterns(ov[1], wv[3])
        \o Patterns(ov[2], wv[1]) \o Patterns(ov[2], wv[2]) \o Patterns(ov[2], wv[3])
        \o Patterns(ov[3], wv[1]) \o Patterns(ov[3], wv[2]) \o Patterns(ov[3], wv[3])

\* a loop body that replaces the first match only
ApplyPatternOnce(st, pat) ==
    IF pat[1] # pat[2]
    THEN LET ms == Matches(st.xml, pat[1])
             count == Len(ms)
         IN  IF count > 0
             THEN [xml |-> Splice(st.xml, Len(pat[1]), pat[2], <<ms[1]>>, 1, 1),
                   n |-> st.n + count]
             ELSE st
    ELSE st

\* the innermost loop body: one pattern pair applied to [xml, n]
ApplyPattern(st, pat) ==
    IF pat[1] # pat[2]
    THEN LET ms == Matches(st.xml, pat[1])
             count == Len(ms)
         IN  IF count > 0
             THEN [xml |-> Splice(st.xml, Len(pat[1]), pat[2], ms, 1, 1),
                   n |-> st.n + count]
             ELSE st
    ELSE st

RECURSIVE ApplyPatterns(_, _, _)
ApplyPatterns(st, pats, k) ==
    IF k > Len(pats) THEN st
    ELSE LET next == ApplyPattern(st, pats[k])
         IN  IF next.n >= st.n THEN ApplyPatterns(next, pats, k + 1) ELSE next

\* one iteration of the loop over image_conversions: the patched text and
\* file_replacements of the record
RewriteRecord(xml, rec) ==
    ApplyPatterns([xml |-> xml, n |-> 0], RecordPatterns(rec[1], rec[2]), 1)

\* the whole loop over the records in the order `order` visits them:
\* the patched text, updated_refs, and the records that found no reference
RECURSIVE RewriteAll(_, _, _)
RewriteAll(st, order, k) ==
    IF k > Len(order) THEN st
    ELSE LET r == RewriteRecord(st.xml, order[k])
             next == [xml |-> r.xml,
                      updated_refs |-> st.updated_refs + r.n,
                      per_file |-> Append(st.per_file, r.n)]
         IN  IF r.n >= 0 THEN RewriteAll(next, order, k + 1) ELSE next

Rewrite(xml, order) ==
    RewriteAll([xml |-> xml, updated_refs |-> 0, per_file |-> << >>], order, 1)

(***************************************************************************)
(* CompressionStats (main.rs 18-134).                                      *)
(***************************************************************************)
CompressionStats_new ==
    [images_processed |-> 0, images_skipped |-> 0, images_kept_original |-> 0,
     image_original_size |-> 0, image_compressed_size |-> 0,
     audio_processed |-> 0, audio_skipped |-> 0, audio_kept_original |-> 0,
     audio_original_size |-> 0, audio_compressed_size |-> 0,
     video_processed |-> 0, video_skipped |-> 0, video_kept_original |-> 0,
     video_original_size |-> 0, video_compressed_size |-> 0,
     total_input_size |-> 0, total_output_size |-> 0, total_updated_refs |-> 0]

add_processed_image(st, original_size, compressed_size) ==
    [st EXCEPT !.images_processed = @ + 1,
               !.image_original_size = @ + original_size,
               !.image_compressed_size = @ + compressed_size,
               !.total_input_size = @ + original_size,
               !.total_output_size = @ + compressed_size]

add_kept_original_image(st, size) ==
    [st EXCEPT !.images_kept_original = @ + 1,
               !.image_original_size = @ + size,
               !.image_compressed_size = @ + size,
               !.total_input_size = @ + size,
               !.total_output_size = @ + size]

\* an update that counts the entry as kept instead of skipped
add_skipped_image_as_kept(st, size) ==
    [st EXCEPT !.images_kept_original = @ + 1,
               !.image_original_size = @ + size,
               !.image_compressed_size = @ + size,
               !.total_input_size = @ + size,
               !.total_output_size = @ + size]

add_skipped_image(st, size) ==
    [st EXCEPT !.images_skipped = @ + 1,
               !.image_original_size = @ + size,
               !.image_compressed_size = @ + size,
               !.total_input_size = @ + size,
               !.total_output_size = @ + size]

add_processed_audio(st, original_size, compressed_size) ==
    [st EXCEPT !.audio_processed = @ + 1,
               !.audio_original_size = @ + original_size,
               !.audio_compressed_size = @ + compressed_size,
               !.total_input_size = @ + original_size,
               !.total_output_size = @ + compressed_size]

add_kept_original_audio(st, size) ==
    [st EXCEPT !.audio_kept_original = @ + 1,
               !.audio_original_size = @ + size,
               !.audio_compressed_size = @ + size,
               !.total_input_size = @ + size,
               !.total_output_size = @ + size]

\* an update that counts the entry twice
add_skipped_audio_twice(st, size) ==
    [st EXCEPT !.audio_skipped = @ + 2,
               !.audio_original_size = @ + size + size,
               !.audio_compressed_size = @ + size + size,
               !.total_input_size = @ + size + size,
               !.total_output_size = @ + size + size]

add_skipped_audio(st, size) ==
    [st EXCEPT !.audio_skipped = @ + 1,
               !.audio_original_size = @ + size,
               !.audio_compressed_size = @ + size,
               !.total_input_size = @ + size,
               !.total_output_size = @ + size]

add_processed_video(st, original_size, compressed_size) ==
    [st EXCEPT !.video_processed = @ + 1,
               !.video_original_size = @ + original_size,
               !.video_compressed_size = @ + compressed_size,
               !.total_input_size = @ + original_size,
               !.total_output_size = @ + compressed_size]

add_kept_original_video(st, size) ==
    [st EXCEPT !.video_kept_original = @ + 1,
               !.video_original_size = @ + size,
               !.video_compressed_size = @ + size,
               !.total_input_size = @ + size,
               !.total_output_size = @ + size]

add_skipped_video(st, size) ==
    [st EXCEPT !.video_skipped = @ + 1,
               !.video_original_size = @ + size,
               !.video_compressed_size = @ + size,
               !.total_input_size = @ + size,
               !.total_output_size = @ + size]

\* an update that forgets the output size
add_other_file_input_only(st, size) ==
    [st EXCEPT !.total_input_size = @ + size]

add_other_file(st, size) ==
    [st EXCEPT !.total_input_size = @ + size,
               !.total_output_size = @ + size]

add_updated_refs(st, count) ==
    [st EXCEPT !.total_updated_refs = @ + count]

(***************************************************************************)
(* The inputs of a run: the arguments of compress_pack, the entries the    *)
(* source archive can hold, and what the codecs can return.                *)
(***************************************************************************)
\* the paths a run is called with: named *.siq, *.SIQ, *.zip, and a file
\* called siq that has no extension
PackSiq == <<"p", ".", "s", "i", "q">>
InputPaths ==
    {PackSiq, <<"p", ".", "S", "I", "Q">>, <<"p", ".", "z", "i", "p">>, ExtSiq}

\* the qualities a run is called with: below, inside and above 1..=100
QualitySamples == {0, 85, 101}

Image1Jpg == ImagesDir \o <<"1", ".", "j", "p", "g">>
Image11Jpg == ImagesDir \o <<"1", "1", ".", "j", "p", "g">>
Image1Webp == ImagesDir \o <<"1", ".", "w", "e", "b", "p">>
AudioMp3 == AudioDir \o <<"s", ".", "M", "P", "3">>
VideoMp4 == VideoDir \o <<"v", ".", "m", "p", "4">>
OtherGif == ImagesDir \o <<"n", ".", "g", "i", "f">>

\* the paths of the media and other entries of a source archive, in the
\* order the central directory of the archive lists them
MediaPaths == <<Image1Jpg, OtherGif, Image11Jpg, VideoMp4, Image1Webp, AudioMp3>>

\* the place of a path in MediaPaths; 0 for content.xml
MediaIndex(name) ==
    IF \E k \in 1..Len(MediaPaths) : MediaPaths[k] = name
    THEN CHOOSE k \in 1..Len(MediaPaths) : MediaPaths[k] = name
    ELSE 0

\* the bytes of the entry at MediaPaths[k]: DataLen bytes of value k
EntryData(k) == [j \in 1..DataLen |-> k]

\* the text of content.xml: one reference to each image of MediaPaths
Reference(filename) == IsRefDq \o filename \o <<"<">>
ManifestText ==
    Reference(StripPrefixOr(Image1Jpg, ImagesDir))
    \o Reference(StripPrefixOr(Image11Jpg, ImagesDir))
    \o Reference(StripPrefixOr(Image1Webp, ImagesDir))

\* the entries by_index can return
SourceEntries ==
    {[name |-> MediaPaths[k], data |-> EntryData(k)] : k \in 1..Len(MediaPaths)}
    \cup {[name |-> ContentXmlName, data |-> ManifestText]}

\* what a codec call returns: an error, or Ok((compressed_data,
\* original_size, compressed_size)) with compressed data one byte shorter
\* than, as long as, or one byte longer than the data
CodecErr == [ok |-> FALSE]
CodecOk(compressed_data, data) ==
    [ok |-> TRUE, compressed_data |-> compressed_data,
     original_size |-> Len(data), compressed_size |-> Len(compressed_data)]
CompressedOutputs(data) ==
    {[j \in 1..n |-> 0] : n \in {Len(data) - 1, Len(data), Len(data) + 1}}
NoCall == [ok |-> FALSE, called |-> FALSE]

\* image::compress_image_file
compress_image_file(data, filename) ==
    {CodecErr} \cup {CodecOk(c, data) : c \in CompressedOutputs(data)}

\* audio::compress_audio_file
compress_audio_file(data, filename) ==
    IF ~detect_audio_format(filename) THEN {CodecErr}
    ELSE {CodecErr} \cup {CodecOk(c, data) : c \in CompressedOutputs(data)}

\* video::compress_video_file
compress_video_file(data, filename) ==
    IF ~detect_video_format(filename) THEN {CodecErr}
    ELSE {CodecErr} \cup {CodecOk(c, data) : c \in CompressedOutputs(data)}

(***************************************************************************)
(* The state of a run of compress_pack (main.rs 446-1144).                 *)
(***************************************************************************)
VARIABLES
    pc,                 \* the place of the run in compress_pack
    input_pack,         \* the path of the source archive
    input_exists,       \* input_pack.exists()
    image_quality, audio_quality, video_quality,
    skip_image, skip_audio, skip_video, always_compress,
    ffmpeg_available,
    input_opened,       \* File::open / ZipArchive::new of the input was called
    output_created,     \* File::create of the output was called
    archive_len,        \* archive.len()
    archive,            \* the entries by_index has returned, in index order
    zip_writer,         \* the entries written to the output, in write order
    sealed,             \* zip_writer.finish() succeeded
    stats,
    image_conversions,  \* the HashMap, as a set of <<original, webp>> pairs
    content_xml_data,   \* Option<String>
    ret,                \* what the codec call of the last iteration returned
    log,                \* the lines of logger.log and warn!, oldest first
    rewriting,          \* the locals of the block that patches content.xml
    encoding,           \* the locals of a call of compress_video_file
    result              \* "running", "Ok" or the error returned

vars ==
    <<pc, input_pack, input_exists, image_quality, audio_quality, video_quality,
      skip_image, skip_audio, skip_video, always_compress, ffmpeg_available,
      input_opened, output_created, archive_len, archive, zip_writer, sealed,
      stats, image_conversions, content_xml_data, ret, log, rewriting,
      encoding, result>>

args ==
    <<input_pack, input_exists, image_quality, audio_quality, video_quality,
      skip_image, skip_audio, skip_video, always_compress>>

\* the variables of the stream and finalize phases
work ==
    <<archive, zip_writer, sealed, stats, image_conversions, content_xml_data,
      ret, log>>

\* no pass over content.xml is under way
NoRewriting == [active |-> FALSE]

\* no call of compress_video_file is under way
NoEncoding == [active |-> FALSE]

Init ==
    /\ pc = "validate_input"
    /\ input_pack \in InputPaths
    /\ input_exists \in BOOLEAN
    /\ image_quality \in QualitySamples
    /\ audio_quality \in QualitySamples
    /\ video_quality \in QualitySamples
    /\ skip_image \in BOOLEAN
    /\ skip_audio \in BOOLEAN
    /\ skip_video \in BOOLEAN
    /\ always_compress \in BOOLEAN
    /\ ffmpeg_available = FALSE
    /\ input_opened = FALSE
    /\ output_created = FALSE
    /\ archive_len = 0
    /\ archive = << >>
    /\ zip_writer = << >>
    /\ sealed = FALSE
    /\ stats = CompressionStats_new
    /\ image_conversions = {}
    /\ content_xml_data = None
    /\ ret = NoCall
    /\ log = << >>
    /\ rewriting = NoRewriting
    /\ encoding = NoEncoding
    /\ result = "running"

\* an error that is recorded while the run goes on
FailKeepsRunning(e) == pc' = pc /\ result' = e

\* return Err(e): the run ends with the error e
Fail(e) == pc' = "done" /\ result' = e

(***************************************************************************)
(* Before the loop (main.rs 458-556).                                      *)
(***************************************************************************)
\* a validation that looks at the extension before the existence
CheckInputExtensionFirst(exists, path) ==
    IF PathExtension(path) # Some(ExtSiq) THEN "InvalidSiqFile"
    ELSE IF ~exists THEN "InputNotFound"
    ELSE "Valid"

\* main.rs 459-465: the two checks of the input path, in their order
CheckInput(exists, path) ==
    IF ~exists THEN "InputNotFound"
    ELSE IF PathExtension(path) # Some(ExtSiq) THEN "InvalidSiqFile"
    ELSE "Valid"

\* main.rs 458-465: the input must exist and be named *.siq
ValidateInput ==
    /\ pc = "validate_input"
    /\ LET checked == CheckInput(input_exists, input_pack)
       IN  IF checked # "Valid" THEN Fail(checked)
           ELSE pc' = "detect_ffmpeg" /\ UNCHANGED result
    /\ UNCHANGED <<args, rewriting, encoding, ffmpeg_available, input_opened, output_created,
                   archive_len, work>>

\* main.rs 489-519: ffmpeg_path given and existing, given and missing, or
\* not given and looked up with `which`
DetectFfmpeg ==
    /\ pc = "detect_ffmpeg"
    /\ \E given \in BOOLEAN, found \in BOOLEAN :
          /\ ffmpeg_available' = found
          /\ log' = IF given /\ ~found
                    THEN Append(log, <<"warn: ffmpeg path does not exist">>)
                    ELSE IF ~given /\ ~found /\ ~skip_video
                    THEN Append(log, <<"warn: ffmpeg not found">>)
                    ELSE log
    /\ pc' = "validate_quality"
    /\ UNCHANGED <<args, rewriting, encoding, input_opened, output_created, archive_len, archive,
                   zip_writer, sealed, stats, image_conversions,
                   content_xml_data, ret, result>>

\* a range check that lets quality 0 through
QualityInRangeFromZero(quality) == quality >= 0 /\ quality <= 100

\* (1..=100).contains(&quality)
QualityInRange(quality) == quality >= 1 /\ quality <= 100

\* main.rs 521-530
ValidateQuality ==
    /\ pc = "validate_quality"
    /\ IF ~QualityInRange(image_quality) THEN Fail("ImageQuality")
       ELSE IF ~QualityInRange(audio_quality) THEN Fail("AudioQuality")
       ELSE IF ~QualityInRange(video_quality) THEN Fail("VideoQuality")
       ELSE pc' = "open_input" /\ UNCHANGED result
    /\ UNCHANGED <<args, rewriting, encoding, ffmpeg_available, input_opened, output_created,
                   archive_len, work>>

\* main.rs 532-536: File::open and ZipArchive::new; the archive holds
\* archive_len entries
OpenInput ==
    /\ pc = "open_input"
    /\ input_opened' = TRUE
    /\ \E ok \in BOOLEAN :
          IF ok
          THEN /\ archive_len' \in 0..MaxEntries
               /\ pc' = "create_output"
               /\ UNCHANGED result
          ELSE Fail("OpenInputFailed") /\ UNCHANGED archive_len
    /\ UNCHANGED <<args, rewriting, encoding, ffmpeg_available, output_created, work>>

\* main.rs 538-556: File::create, the statistics, the registry
CreateOutput ==
    /\ pc = "create_output"
    /\ output_created' = TRUE
    /\ \E ok \in BOOLEAN :
          IF ok THEN pc' = "stream" /\ UNCHANGED result
          ELSE Fail("CreateOutputFailed")
    /\ UNCHANGED <<args, rewriting, encoding, ffmpeg_available, input_opened, archive_len, work>>

(***************************************************************************)
(* The loop over the entries of the source archive (main.rs 559-925).      *)
(***************************************************************************)
\* a writer that puts each new entry in front of the entries written so far
WriteEntryInFront(zw, name, data) == <<[name |-> name, data |-> data]>> \o zw

\* a writer that gives every entry the path to_webp_filename derives
WriteEntryAsWebp(zw, name, data) ==
    Append(zw, [name |-> to_webp_filename(name), data |-> data])

\* zip_writer.start_file(name) followed by write_all(data)
WriteEntry(zw, name, data) == Append(zw, [name |-> name, data |-> data])

\* an accept policy that takes every result
AcceptAlways(original_size, compressed_size, force) == TRUE

\* an accept policy that also takes a result of the same size
AcceptNotLarger(original_size, compressed_size, force) ==
    compressed_size <= original_size \/ force

\* the accept policy: the else branch of
\* `if compressed_size >= original_size && !always_compress`
Accept(original_size, compressed_size, force) ==
    ~(compressed_size >= original_size /\ ~force)

\* HashMap::insert
Insert(map, key, value) ==
    {p \in map : p[1] # key} \cup {<<key, value>>}

\* the entries by_index can return next: the names of an archive are
\* distinct, its media entries come in the order of MediaPaths, and
\* content.xml is at any index
Unread ==
    {e \in SourceEntries :
        \A k \in 1..Len(archive) :
            /\ archive[k].name # e.name
            /\ \/ is_content_xml(e.name)
               \/ is_content_xml(archive[k].name)
               \/ MediaIndex(archive[k].name) < MediaIndex(e.name)}

\* the loop is at an entry: `for i in 0..archive.len()` with i = Len(archive)
AtEntry == pc = "stream" /\ Len(archive) < archive_len

Processing(e) == Append(log, <<"Processing", e.name>>)

\* main.rs 560-562, 575-576, 588-589, ...: by_index or the read of the entry fails
ReadFails ==
    /\ AtEntry
    /\ Fail("ReadFailed")
    /\ UNCHANGED <<args, rewriting, encoding, ffmpeg_available, input_opened, output_created,
                   archive_len, work>>

\* main.rs 572-584: content.xml is stored, not written
StoreManifest ==
    /\ AtEntry
    /\ \E e \in Unread :
          /\ is_content_xml(e.name)
          /\ archive' = Append(archive, e)
          /\ stats' = add_other_file(stats, Len(e.data))
          /\ content_xml_data' = Some(e.data)
          /\ log' = Append(Processing(e), <<"Stored content.xml">>)
    /\ ret' = NoCall
    /\ UNCHANGED <<pc, result, args, rewriting, encoding, ffmpeg_available, input_opened,
                   output_created, archive_len, zip_writer, sealed,
                   image_conversions>>

\* main.rs 585-667: an image entry, skip_image unset
CompressImage ==
    /\ AtEntry
    /\ ~skip_image
    /\ \E e \in Unread :
          /\ ~is_content_xml(e.name) /\ is_image(e.name)
          /\ archive' = Append(archive, e)
          /\ \E r \in compress_image_file(e.data, e.name) :
                /\ ret' = r
                /\ IF r.ok
                   THEN IF ~Accept(r.original_size, r.compressed_size, always_compress)
                        THEN /\ zip_writer' = WriteEntry(zip_writer, e.name, e.data)
                             /\ stats' = add_kept_original_image(stats, r.original_size)
                             /\ log' = Append(Processing(e),
                                   <<"Keeping original", r.original_size, r.compressed_size>>)
                             /\ UNCHANGED image_conversions
                        ELSE LET webp_filename == to_webp_filename(e.name)
                             IN  /\ zip_writer' =
                                       WriteEntry(zip_writer, webp_filename, r.compressed_data)
                                 /\ image_conversions' =
                                       Insert(image_conversions, e.name, webp_filename)
                                 /\ stats' = add_processed_image(stats, r.original_size,
                                                                 r.compressed_size)
                                 /\ log' = Append(Processing(e),
                                       <<"Converted to WebP", r.original_size,
                                         r.compressed_size>>)
                   ELSE /\ zip_writer' = WriteEntry(zip_writer, e.name, e.data)
                        /\ stats' = add_skipped_image(stats, Len(e.data))
                        /\ log' = Append(Processing(e), <<"Skipping", e.name>>)
                        /\ UNCHANGED image_conversions
    /\ UNCHANGED <<pc, result, args, rewriting, encoding, ffmpeg_available, input_opened,
                   output_created, archive_len, sealed, content_xml_data>>

\* a skip branch that records a rename for the image it copies
CopyImageRecordsRename ==
    /\ AtEntry
    /\ skip_image
    /\ \E e \in Unread :
          /\ ~is_content_xml(e.name) /\ is_image(e.name)
          /\ archive' = Append(archive, e)
          /\ zip_writer' = WriteEntry(zip_writer, e.name, e.data)
          /\ image_conversions' =
                Insert(image_conversions, e.name, to_webp_filename(e.name))
          /\ stats' = add_skipped_image(stats, Len(e.data))
          /\ log' = Append(Processing(e), <<"Skipping image compression", e.name>>)
    /\ ret' = NoCall
    /\ UNCHANGED <<pc, result, args, rewriting, encoding, ffmpeg_available, input_opened,
                   output_created, archive_len, sealed, content_xml_data>>

\* main.rs 668-693: an image entry, skip_image set
CopyImage ==
    /\ AtEntry
    /\ skip_image
    /\ \E e \in Unread :
          /\ ~is_content_xml(e.name) /\ is_image(e.name)
          /\ archive' = Append(archive, e)
          /\ zip_writer' = WriteEntry(zip_writer, e.name, e.data)
          /\ stats' = add_skipped_image(stats, Len(e.data))
          /\ log' = Append(Processing(e), <<"Skipping image compression", e.name>>)
    /\ ret' = NoCall
    /\ UNCHANGED <<pc, result, args, rewriting, encoding, ffmpeg_available, input_opened,
                   output_created, archive_len, sealed, image_conversions,
                   content_xml_data>>

\* main.rs 694-770: an audio entry, skip_audio unset
CompressAudio ==
    /\ AtEntry
    /\ ~skip_audio
    /\ \E e \in Unread :
          /\ ~is_content_xml(e.name) /\ ~is_image(e.name) /\ is_audio(e.name)
          /\ archive' = Append(archive, e)
          /\ \E r \in compress_audio_file(e.data, e.name) :
                /\ ret' = r
                /\ IF r.ok
                   THEN IF ~Accept(r.original_size, r.compressed_size, always_compress)
                        THEN /\ zip_writer' = WriteEntry(zip_writer, e.name, e.data)
                             /\ stats' = add_kept_original_audio(stats, r.original_size)
                             /\ log' = Append(Processing(e),
                                   <<"Keeping original", r.original_size, r.compressed_size>>)
                        ELSE /\ zip_writer' = WriteEntry(zip_writer, e.name, r.compressed_data)
                             /\ stats' = add_processed_audio(stats, r.original_size,
                                                             r.compressed_size)
                             /\ log' = Append(Processing(e),
                                   <<"MP3 compressed", r.original_size, r.compressed_size>>)
                   ELSE /\ zip_writer' = WriteEntry(zip_writer, e.name, e.data)
                        /\ stats' = add_skipped_audio(stats, Len(e.data))
                        /\ log' = Append(Processing(e), <<"Skipping", e.name>>)
    /\ UNCHANGED <<pc, result, args, rewriting, encoding, ffmpeg_available, input_opened,
                   output_created, archive_len, sealed, image_conversions,
                   content_xml_data>>

\* main.rs 771-792: an audio entry, skip_audio set
CopyAudio ==
    /\ AtEntry
    /\ skip_audio
    /\ \E e \in Unread :
          /\ ~is_content_xml(e.name) /\ ~is_image(e.name) /\ is_audio(e.name)
          /\ archive' = Append(archive, e)
          /\ zip_writer' = WriteEntry(zip_writer, e.name, e.data)
          /\ stats' = add_skipped_audio(stats, Len(e.data))
          /\ log' = Append(Processing(e), <<"Skipping audio compression", e.name>>)
    /\ ret' = NoCall
    /\ UNCHANGED <<pc, result, args, rewriting, encoding, ffmpeg_available, input_opened,
                   output_created, archive_len, sealed, image_conversions,
                   content_xml_data>>

\* an entry that reaches the `else if is_video` branch: an image or audio
\* entry never does, whatever its skip flag
ReachesVideoBranch(name) ==
    ~is_content_xml(name) /\ ~is_image(name) /\ ~is_audio(name) /\ is_video(name)

\* main.rs 793-820: a video entry, skip_video set or ffmpeg not available
CopyVideo ==
    /\ AtEntry
    /\ skip_video \/ ~ffmpeg_available
    /\ \E e \in Unread :
          /\ ReachesVideoBranch(e.name)
          /\ archive' = Append(archive, e)
          /\ zip_writer' = WriteEntry(zip_writer, e.name, e.data)
          /\ stats' = add_skipped_video(stats, Len(e.data))
          /\ log' = Append(Processing(e),
                           <<"Skipping video compression",
                             IF skip_video THEN "skip_video flag"
                             ELSE "ffmpeg not available", e.name>>)
    /\ ret' = NoCall
    /\ UNCHANGED <<pc, result, args, rewriting, encoding, ffmpeg_available, input_opened,
                   output_created, archive_len, sealed, image_conversions,
                   content_xml_data>>

\* main.rs 821-906: a video entry handed to ffmpeg
CompressVideo ==
    /\ AtEntry
    /\ ~(skip_video \/ ~ffmpeg_available)
    /\ \E e \in Unread :
          /\ ReachesVideoBranch(e.name)
          /\ archive' = Append(archive, e)
          /\ \E r \in compress_video_file(e.data, e.name) :
                /\ ret' = r
                /\ IF r.ok
                   THEN IF ~Accept(r.original_size, r.compressed_size, always_compress)
                        THEN /\ zip_writer' = WriteEntry(zip_writer, e.name, e.data)
                             /\ stats' = add_kept_original_video(stats, r.original_size)
                             /\ log' = Append(Processing(e),
                                   <<"Keeping original", r.original_size, r.compressed_size>>)
                        ELSE /\ zip_writer' = WriteEntry(zip_writer, e.name, r.compressed_data)
                             /\ stats' = add_processed_video(stats, r.original_size,
                                                             r.compressed_size)
                             /\ log' = Append(Processing(e),
                                   <<"HEVC compressed", r.original_size, r.compressed_size>>)
                   ELSE /\ zip_writer' = WriteEntry(zip_writer, e.name, e.data)
                        /\ stats' = add_skipped_video(stats, Len(e.data))
                        /\ log' = Append(Processing(e),
                                         <<"Video compression failed", e.name>>)
    /\ UNCHANGED <<pc, result, args, rewriting, encoding, ffmpeg_available, input_opened,
                   output_created, archive_len, sealed, image_conversions,
                   content_xml_data>>

\* main.rs 907-921: any other entry is copied
CopyOther ==
    /\ AtEntry
    /\ \E e \in Unread :
          /\ ~is_content_xml(e.name) /\ ~is_image(e.name) /\ ~is_audio(e.name)
          /\ ~is_video(e.name)
          /\ archive' = Append(archive, e)
          /\ zip_writer' = WriteEntry(zip_writer, e.name, e.data)
          /\ stats' = add_other_file(stats, Len(e.data))
          /\ log' = Processing(e)
    /\ ret' = NoCall
    /\ UNCHANGED <<pc, result, args, rewriting, encoding, ffmpeg_available, input_opened,
                   output_created, archive_len, sealed, image_conversions,
                   content_xml_data>>

(***************************************************************************)
(* After the loop (main.rs 927-1143).                                      *)
(***************************************************************************)
\* a loop that can be left before its last entry
AfterLoopAnyTime == pc = "stream"

\* the loop `for i in 0..archive.len()` has ended
AfterLoop == pc = "stream" /\ Len(archive) = archive_len

\* the orders in which `for (original_path, webp_path) in &image_conversions`
\* can visit the records of the HashMap
Orders(map) ==
    {o \in [1..Cardinality(map) -> map] :
        \A a, b \in 1..Cardinality(map) : a # b => o[a] # o[b]}

\* the line logged at the start of the block (main.rs 929)
UpdatingLine == <<"Updating content.xml">>

\* the lines the loop over the records logs (main.rs 1008-1018)
RewriteLog(order, per_file) ==
    [k \in 1..Len(order) |->
        IF per_file[k] > 0
        THEN <<"Updated", StripPrefixOr(order[k][1], ImagesDir), per_file[k]>>
        ELSE <<"Warning: No refs found", StripPrefixOr(order[k][1], ImagesDir)>>]

\* main.rs 928-1036: content.xml is patched and written
RewriteManifest ==
    /\ AfterLoop
    /\ content_xml_data.some
    /\ \E order \in Orders(image_conversions) :
          \E rw \in {Rewrite(content_xml_data.val, order)} :
              /\ zip_writer' = WriteEntry(zip_writer, ContentXmlName, rw.xml)
              /\ stats' = add_updated_refs(stats, rw.updated_refs)
              /\ log' = (Append(log, UpdatingLine)
                         \o RewriteLog(order, rw.per_file))
                        \o << <<"Updated image references", rw.updated_refs>> >>
    /\ pc' = "finish"
    /\ UNCHANGED <<result, args, rewriting, encoding, ffmpeg_available, input_opened, output_created,
                   archive_len, archive, sealed, image_conversions,
                   content_xml_data, ret>>

\* the line logged when the source archive held no content.xml
NoManifestWarning == <<"Warning: No content.xml found in pack">>

\* an else branch that writes an empty content.xml
NoManifestWritesEmpty ==
    /\ AfterLoop
    /\ ~content_xml_data.some
    /\ log' = Append(log, NoManifestWarning)
    /\ zip_writer' = WriteEntry(zip_writer, ContentXmlName, << >>)
    /\ pc' = "finish"
    /\ UNCHANGED <<result, args, rewriting, encoding, ffmpeg_available, input_opened, output_created,
                   archive_len, archive, sealed, stats, image_conversions,
                   content_xml_data, ret>>

\* main.rs 1037-1039: no content.xml was read
NoManifest ==
    /\ AfterLoop
    /\ ~content_xml_data.some
    /\ log' = Append(log, NoManifestWarning)
    /\ pc' = "finish"
    /\ UNCHANGED <<result, args, rewriting, encoding, ffmpeg_available, input_opened, output_created,
                   archive_len, archive, zip_writer, sealed, stats,
                   image_conversions, content_xml_data, ret>>

\* the line that opens the statistics report (main.rs 1051)
SummaryLine == <<"Compression complete!">>

\* main.rs 1041-1143: zip_writer.finish(), then the summary is logged and
\* Ok(()) returned
Finish ==
    /\ pc = "finish"
    /\ \E ok \in BOOLEAN :
          IF ok
          THEN /\ sealed' = TRUE
               /\ log' = Append(log, SummaryLine)
               /\ pc' = "done"
               /\ result' = "Ok"
          ELSE Fail("FinishFailed") /\ UNCHANGED <<sealed, log>>
    /\ UNCHANGED <<args, rewriting, encoding, ffmpeg_available, input_opened, output_created,
                   archive_len, archive, zip_writer, stats, image_conversions,
                   content_xml_data, ret>>

Next ==
    \/ ValidateInput
    \/ DetectFfmpeg
    \/ ValidateQuality
    \/ OpenInput
    \/ CreateOutput
    \/ ReadFails
    \/ StoreManifest
    \/ CompressImage
    \/ CopyImage
    \/ CompressAudio
    \/ CopyAudio
    \/ CopyVideo
    \/ CompressVideo
    \/ CopyOther
    \/ RewriteManifest
    \/ NoManifest
    \/ Finish

Spec == Init /\ [][Next]_vars

(***************************************************************************)
(* The reference rewriter on its own: content_xml_data holds the text      *)
(* handed to the first pass, image_conversions the rename records, and     *)
(* each pass writes its output, the next pass reading the last output.     *)
(***************************************************************************)
\* the number of passes applied to one text
MaxPasses == 2

RewriteNames ==
    {<<"1", ".", "j", "p", "g">>,
     <<"p", ".", "j", "p", "g">>,
     <<"1", ".", "j", "p", "g", ".", "j", "p", "g">>,
     <<"a", " ", "b", ".", "p", "n", "g">>}

\* the texts: two references, each to one of RewriteNames
RewriteTexts ==
    {Reference(a) \o Reference(b) : a, b \in RewriteNames}

\* the records: one or two accepted images among RewriteNames, each with the
\* path the stream phase records for it
RewriteRecords ==
    {<<ImagesDir \o n, to_webp_filename(ImagesDir \o n)>> : n \in RewriteNames}

RewriteRegistries ==
    {m \in SUBSET RewriteRecords : Cardinality(m) \in {1, 2}}

InitRewrite ==
    /\ pc = "rewrite"
    /\ content_xml_data \in {Some(t) : t \in RewriteTexts}
    /\ image_conversions \in RewriteRegistries
    /\ input_pack = PackSiq
    /\ input_exists = TRUE
    /\ image_quality = 85
    /\ audio_quality = 85
    /\ video_quality = 75
    /\ skip_image = FALSE
    /\ skip_audio = FALSE
    /\ skip_video = FALSE
    /\ always_compress = FALSE
    /\ ffmpeg_available = FALSE
    /\ input_opened = TRUE
    /\ output_created = TRUE
    /\ archive_len = 0
    /\ archive = << >>
    /\ zip_writer = << >>
    /\ sealed = FALSE
    /\ stats = CompressionStats_new
    /\ ret = NoCall
    /\ log = << >>
    /\ rewriting = NoRewriting
    /\ encoding = NoEncoding
    /\ result = "running"

\* the text the next pass reads
PassInput ==
    IF zip_writer = << >> THEN content_xml_data.val
    ELSE zip_writer[Len(zip_writer)].data

\* main.rs 934-1030 applied to PassInput: the loop over the records, the
\* write of the patched text and the count of this pass
RewritePass ==
    /\ pc = "rewrite"
    /\ Len(zip_writer) < MaxPasses
    /\ \E order \in Orders(image_conversions) :
          \E rw \in {Rewrite(PassInput, order)} :
              /\ zip_writer' = WriteEntry(zip_writer, ContentXmlName, rw.xml)
              /\ stats' = add_updated_refs(CompressionStats_new, rw.updated_refs)
    /\ UNCHANGED <<pc, result, args, rewriting, encoding, ffmpeg_available, input_opened,
                   output_created, archive_len, archive, sealed,
                   image_conversions, content_xml_data, ret, log>>

NextRewrite == RewritePass

SpecRewrite == InitRewrite /\ [][NextRewrite]_vars

(***************************************************************************)
(* The reference rewriting pass step by step (main.rs 928-1036): one step  *)
(* per pattern pair tried, one per record finished, one for the write of   *)
(* the patched text. rewriting holds the locals of the block.              *)
(***************************************************************************)
\* the locals at the start of the block, the HashMap visited in `order`
StartRewriting(xml_content, order) ==
    [active |-> TRUE, order |-> order, record |-> 1, pattern |-> 1,
     xml_content |-> xml_content, file_replacements |-> 0, updated_refs |-> 0]

InitPatterns ==
    /\ pc = "rewrite"
    /\ content_xml_data \in {Some(t) : t \in RewriteTexts}
    /\ image_conversions \in RewriteRegistries
    /\ rewriting \in {StartRewriting(content_xml_data.val, o) :
                          o \in Orders(image_conversions)}
    /\ encoding = NoEncoding
    /\ log = <<UpdatingLine>>
    /\ input_pack = PackSiq
    /\ input_exists = TRUE
    /\ image_quality = 85
    /\ audio_quality = 85
    /\ video_quality = 75
    /\ skip_image = FALSE
    /\ skip_audio = FALSE
    /\ skip_video = FALSE
    /\ always_compress = FALSE
    /\ ffmpeg_available = FALSE
    /\ input_opened = TRUE
    /\ output_created = TRUE
    /\ archive_len = 0
    /\ archive = << >>
    /\ zip_writer = << >>
    /\ sealed = FALSE
    /\ stats = CompressionStats_new
    /\ ret = NoCall
    /\ result = "running"

\* the loop is at a record
AtRecord == pc = "rewrite" /\ rewriting.record <= Len(rewriting.order)

\* the pattern pairs of the record the loop is at
CurrentPatterns ==
    RecordPatterns(rewriting.order[rewriting.record][1],
                   rewriting.order[rewriting.record][2])

\* main.rs 994-1002: the next pattern pair of the record is tried
TryPattern ==
    /\ AtRecord
    /\ rewriting.pattern <= Len(CurrentPatterns)
    /\ LET st == ApplyPattern([xml |-> rewriting.xml_content,
                               n |-> rewriting.file_replacements],
                              CurrentPatterns[rewriting.pattern])
       IN  rewriting' = [rewriting EXCEPT !.xml_content = st.xml,
                                          !.file_replacements = st.n,
                                          !.pattern = @ + 1]
    /\ UNCHANGED <<pc, result, args, encoding, ffmpeg_available, input_opened,
                   output_created, archive_len, archive, zip_writer, sealed,
                   stats, image_conversions, content_xml_data, ret, log>>

\* main.rs 1006-1018: the record is finished, its tally added and logged
EndRecord ==
    /\ AtRecord
    /\ rewriting.pattern > Len(CurrentPatterns)
    /\ rewriting' = [rewriting EXCEPT !.updated_refs = @ + rewriting.file_replacements,
                                      !.record = @ + 1,
                                      !.pattern = 1,
                                      !.file_replacements = 0]
    /\ log' = log \o RewriteLog(<<rewriting.order[rewriting.record]>>,
                                 <<rewriting.file_replacements>>)
    /\ UNCHANGED <<pc, result, args, encoding, ffmpeg_available, input_opened,
                   output_created, archive_len, archive, zip_writer, sealed,
                   stats, image_conversions, content_xml_data, ret>>

\* main.rs 1021-1036: the patched text is written, the count recorded
WritePatched ==
    /\ pc = "rewrite"
    /\ rewriting.record > Len(rewriting.order)
    /\ zip_writer' = WriteEntry(zip_writer, ContentXmlName, rewriting.xml_content)
    /\ stats' = add_updated_refs(stats, rewriting.updated_refs)
    /\ log' = Append(log, <<"Updated image references", rewriting.updated_refs>>)
    /\ pc' = "finish"
    /\ UNCHANGED <<result, args, ffmpeg_available, input_opened, output_created,
                   archive_len, archive, sealed, image_conversions,
                   content_xml_data, ret, rewriting, encoding>>

NextPatterns ==
    \/ TryPattern
    \/ EndRecord
    \/ WritePatched

SpecPatterns == InitPatterns /\ [][NextPatterns]_vars

(***************************************************************************)
(* The classification of entry paths on its own (main.rs 564-568): each    *)
(* step reads one name and logs the branch of the loop body it takes.      *)
(***************************************************************************)
\* the number of names classified in one run
MaxNames == 2

ClassifyPrefixes ==
    {ImagesDir, AudioDir, VideoDir, <<"i", "m", "a", "g", "e", "s", "/">>, << >>}

ClassifyExtensions ==
    {<<"j", "p", "g">>, <<"J", "P", "G">>, <<"J", "p", "e", "g">>, <<"p", "n", "g">>,
     <<"w", "e", "b", "p">>, <<"W", "E", "B", "P">>, <<"m", "p", "3">>, <<"M", "p", "3">>,
     <<"m", "p", "4">>, <<"M", "O", "V">>, <<"a", "v", "i">>, <<"m", "k", "v">>,
     <<"w", "m", "v">>, <<"W", "e", "b", "M">>, <<"g", "i", "f">>}

\* prefix a.ext for every prefix and extension, a name without extension
\* under every prefix, and the names around content.xml and the edge cases
\* of Path::extension
ClassifyPaths ==
    {p \o <<"a", ".">> \o x : p \in ClassifyPrefixes, x \in ClassifyExtensions}
    \cup {p \o <<"a">> : p \in ClassifyPrefixes}
    \cup {ContentXmlName,
          <<"C", "o", "n", "t", "e", "n", "t", ".", "x", "m", "l">>,
          ImagesDir \o ContentXmlName,
          ImagesDir \o <<".", "j", "p", "g">>,
          ImagesDir \o <<"a", ".", "j", "p", "g", ".", "t", "x", "t">>,
          VideoDir \o <<"a", ".", "b", ".", "M", "P", "4">>}

InitClassify ==
    /\ pc = "classify"
    /\ archive_len \in 1..MaxNames
    /\ archive = << >>
    /\ log = << >>
    /\ input_pack = PackSiq
    /\ input_exists = TRUE
    /\ image_quality = 85
    /\ audio_quality = 85
    /\ video_quality = 75
    /\ skip_image = FALSE
    /\ skip_audio = FALSE
    /\ skip_video = FALSE
    /\ always_compress = FALSE
    /\ ffmpeg_available = FALSE
    /\ input_opened = TRUE
    /\ output_created = TRUE
    /\ zip_writer = << >>
    /\ sealed = FALSE
    /\ stats = CompressionStats_new
    /\ image_conversions = {}
    /\ content_xml_data = None
    /\ ret = NoCall
    /\ rewriting = NoRewriting
    /\ encoding = NoEncoding
    /\ result = "running"

\* main.rs 564-572: file.name() is classified and the branch is taken
ClassifyEntry ==
    /\ pc = "classify"
    /\ Len(archive) < archive_len
    /\ \E file_name \in ClassifyPaths :
          /\ archive' = Append(archive, [name |-> file_name, data |-> << >>])
          /\ log' = Append(log, <<Kind(file_name)>>)
    /\ UNCHANGED <<pc, result, args, rewriting, encoding, ffmpeg_available, input_opened,
                   output_created, archive_len, zip_writer, sealed, stats,
                   image_conversions, content_xml_data, ret>>

NextClassify == ClassifyEntry

SpecClassify == InitClassify /\ [][NextClassify]_vars

(***************************************************************************)
(* The quality mappings on their own (audio.rs 52-79, video.rs 205-217):   *)
(* the bitrate of audio_quality is computed, then the CRF of video_quality.*)
(***************************************************************************)
\* a clamp that lets every value through
NoClamp(v, lo, hi) == v

\* u8::clamp
Clamp(v, lo, hi) == IF v < lo THEN lo ELSE IF v > hi THEN hi ELSE v

\* audio::quality_to_mp3_bitrate, the Bitrate as its number of kbps
quality_to_mp3_bitrate(quality) ==
    LET q == Clamp(quality, 1, 100)
    IN  CASE q \in 1..15 -> 64
          [] q \in 16..25 -> 80
          [] q \in 26..35 -> 96
          [] q \in 36..45 -> 128
          [] q \in 46..55 -> 160
          [] q \in 56..65 -> 192
          [] q \in 66..75 -> 224
          [] q \in 76..95 -> 256
          [] q \in 96..100 -> 320
          [] OTHER -> 192

\* a cast that rounds the quotient to the nearest integer
F32QuotientRoundedAsU8(num, den) ==
    IF num < 0 THEN 0
    ELSE IF (2 * num + den) \div (2 * den) > 255 THEN 255
    ELSE (2 * num + den) \div (2 * den)

\* `(num / den) as u8` for the f32 quotient of two integers held exactly:
\* the cast truncates toward zero and saturates at 0 and 255 (rounding the
\* quotient to f32 never crosses an integer)
F32QuotientAsU8(num, den) ==
    IF num < 0 THEN 0
    ELSE IF num \div den > 255 THEN 255
    ELSE num \div den

\* video::quality_to_crf; the subtraction is a u8 subtraction
quality_to_crf(quality) ==
    LET q == Clamp(quality, 1, 100)
    IN  (51 - F32QuotientAsU8((q - 1) * 33, 99)) % 256

\* one of the two qualities is any u8, the other has its default
InitQuality ==
    /\ pc = "bitrate"
    /\ audio_quality \in 0..255
    /\ video_quality \in 0..255
    /\ audio_quality = 85 \/ video_quality = 75
    /\ image_quality = 85
    /\ log = << >>
    /\ input_pack = PackSiq
    /\ input_exists = TRUE
    /\ skip_image = FALSE
    /\ skip_audio = FALSE
    /\ skip_video = FALSE
    /\ always_compress = FALSE
    /\ ffmpeg_available = TRUE
    /\ input_opened = TRUE
    /\ output_created = TRUE
    /\ archive_len = 0
    /\ archive = << >>
    /\ zip_writer = << >>
    /\ sealed = FALSE
    /\ stats = CompressionStats_new
    /\ image_conversions = {}
    /\ content_xml_data = None
    /\ ret = NoCall
    /\ rewriting = NoRewriting
    /\ encoding = NoEncoding
    /\ result = "running"

\* audio.rs 264: let target_bitrate = quality_to_mp3_bitrate(quality)
MapAudioQuality ==
    /\ pc = "bitrate"
    /\ log' = Append(log, <<"bitrate", quality_to_mp3_bitrate(audio_quality)>>)
    /\ pc' = "crf"
    /\ UNCHANGED <<result, args, rewriting, encoding, ffmpeg_available, input_opened, output_created,
                   archive_len, archive, zip_writer, sealed, stats,
                   image_conversions, content_xml_data, ret>>

\* video.rs 293: let crf = quality_to_crf(quality)
MapVideoQuality ==
    /\ pc = "crf"
    /\ log' = Append(log, <<"crf", quality_to_crf(video_quality)>>)
    /\ pc' = "done"
    /\ UNCHANGED <<result, args, rewriting, encoding, ffmpeg_available, input_opened, output_created,
                   archive_len, archive, zip_writer, sealed, stats,
                   image_conversions, content_xml_data, ret>>

NextQuality ==
    \/ MapAudioQuality
    \/ MapVideoQuality

SpecQuality == InitQuality /\ [][NextQuality]_vars

(***************************************************************************)
(* f64 arithmetic, as far as calculate_video_progress uses it (video.rs    *)
(* 182-183, 193-194): a positive f64 is [e, m], the exponent of its        *)
(* leading bit and its F64Precision significand bits, leading bit first;   *)
(* zero is F64Zero. Every operation rounds its exact result to the nearest *)
(* f64, ties to even.                                                      *)
(***************************************************************************)
\* the significand of an f64 holds 53 bits
F64Precision == 53

F64Zero == [zero |-> TRUE]

\* the bits b[from], b[from + 1], ... of a bit sequence hold a one
AnyOneFrom(b, from) == \E i \in from..Len(b) : b[i] = 1

\* a significand plus one unit in its last place; all ones carry into the
\* next exponent
RoundUp(e, m) ==
    IF \A i \in 1..Len(m) : m[i] = 1
    THEN [zero |-> FALSE, e |-> e + 1, m |-> [i \in 1..Len(m) |-> IF i = 1 THEN 1 ELSE 0]]
    ELSE LET last == CHOOSE j \in 1..Len(m) :
                        m[j] = 0 /\ \A i \in (j + 1)..Len(m) : m[i] = 1
         IN  [zero |-> FALSE, e |-> e,
              m |-> [i \in 1..Len(m) |-> IF i < last THEN m[i]
                                         ELSE IF i = last THEN 1 ELSE 0]]

\* the f64 nearest to the number whose bits are b (leading bit one, of
\* exponent e) followed by more bits that hold a one exactly if sticky
RoundToNearestEven(e, b, sticky) ==
    LET m == [i \in 1..F64Precision |-> IF i <= Len(b) THEN b[i] ELSE 0]
    IN  IF Len(b) > F64Precision
           /\ b[F64Precision + 1] = 1
           /\ (sticky \/ AnyOneFrom(b, F64Precision + 2) \/ b[F64Precision] = 1)
        THEN RoundUp(e, m)
        ELSE [zero |-> FALSE, e |-> e, m |-> m]

\* the next k bits of the quotient rem / d (rem < d), after the bits acc
RECURSIVE QuotientBits(_, _, _, _)
QuotientBits(rem, d, k, acc) ==
    IF k = 0 THEN [bits |-> acc, rem |-> rem]
    ELSE QuotientBits(IF 2 * rem >= d THEN 2 * rem - d ELSE 2 * rem, d, k - 1,
                      Append(acc, IF 2 * rem >= d THEN 1 ELSE 0))

\* n / d brought to d <= n < 2 * d, with the exponent e of the quotient
RECURSIVE Normalized(_, _, _)
Normalized(n, d, e) ==
    IF n < d THEN Normalized(2 * n, d, e - 1)
    ELSE IF n >= 2 * d THEN Normalized(n, 2 * d, e + 1)
    ELSE [n |-> n, d |-> d, e |-> e]

\* the f64 quotient x / y of two f64 that hold the numbers n and d with
\* n / d = x / y, n >= 0 and d > 0
F64Div(n, d) ==
    IF n = 0 THEN F64Zero
    ELSE \* the leading bit, F64Precision - 1 more bits and the rounding bit
         LET nm == Normalized(n, d, 0)
             q == QuotientBits(nm.n - nm.d, nm.d, F64Precision, <<1>>)
         IN  RoundToNearestEven(nm.e, q.bits, q.rem # 0)

\* the bits of m * k + carry for a bit sequence m and a number k, the bits
\* acc being those already found at the low end
RECURSIVE TimesBits(_, _, _, _)
TimesBits(m, k, carry, acc) ==
    IF m = << >>
    THEN IF carry = 0 THEN acc
         ELSE TimesBits(m, k, carry \div 2, <<carry % 2>> \o acc)
    ELSE TimesBits(SubSeq(m, 1, Len(m) - 1), k,
                   (m[Len(m)] * k + carry) \div 2,
                   <<(m[Len(m)] * k + carry) % 2>> \o acc)

\* the f64 product x * k of an f64 and a whole number k > 0 that an f64
\* holds exactly
F64Mul(x, k) ==
    IF x.zero THEN F64Zero
    ELSE LET b == TimesBits(x.m, k, 0, << >>)
         IN  RoundToNearestEven(x.e + (Len(b) - F64Precision), b, FALSE)

\* x > k for an f64 x and a whole number k > 0
F64Greater(x, k) ==
    /\ ~x.zero
    /\ LET y == F64Div(k, 1)
       IN  \/ x.e > y.e
           \/ /\ x.e = y.e
              /\ \E i \in 1..F64Precision :
                    /\ x.m[i] > y.m[i]
                    /\ \A j \in 1..(i - 1) : x.m[j] = y.m[j]

\* f64::min with a whole number
F64Min(x, k) == IF F64Greater(x, k) THEN F64Div(k, 1) ELSE x

\* the number a sequence of bits stands for
RECURSIVE BitsValue(_, _)
BitsValue(b, acc) ==
    IF b = << >> THEN acc ELSE BitsValue(Tail(b), 2 * acc + Head(b))

\* `x as u64` for an f64 0 <= x < 2^31: the fraction is cut off
F64AsU64(x) ==
    IF x.zero \/ x.e < 0 THEN 0
    ELSE BitsValue(SubSeq(x.m, 1, x.e + 1), 0)

(***************************************************************************)
(* The progress of an encoding (video.rs 147-200). A number that an f64    *)
(* holds exactly is written as the fraction [n, d] it equals; the parts    *)
(* of the time strings and the durations of the model are such numbers,    *)
(* so that the products and sums of video.rs 158 and 164 are exact and the *)
(* quotient and the product of video.rs 182 and 193 are the only roundings.*)
(***************************************************************************)
Digits ==
    ("0" :> 0) @@ ("1" :> 1) @@ ("2" :> 2) @@ ("3" :> 3) @@ ("4" :> 4)
    @@ ("5" :> 5) @@ ("6" :> 6) @@ ("7" :> 7) @@ ("8" :> 8) @@ ("9" :> 9)

\* the number a sequence of decimal digits stands for
RECURSIVE DecimalValue(_, _)
DecimalValue(s, acc) ==
    IF s = << >> THEN acc ELSE DecimalValue(Tail(s), 10 * acc + Digits[Head(s)])

RECURSIVE PowerOfTen(_)
PowerOfTen(k) == IF k = 0 THEN 1 ELSE 10 * PowerOfTen(k - 1)

\* the first place of s that holds c; Len(s) + 1 if there is none
FirstIndexOf(s, c) ==
    IF \E i \in 1..Len(s) : s[i] = c
    THEN CHOOSE i \in 1..Len(s) : s[i] = c /\ \A j \in 1..(i - 1) : s[j] # c
    ELSE Len(s) + 1

\* str::split(c), the parts found so far being acc
RECURSIVE Split(_, _, _)
Split(s, c, acc) ==
    IF FirstIndexOf(s, c) > Len(s) THEN Append(acc, s)
    ELSE Split(SubSeq(s, FirstIndexOf(s, c) + 1, Len(s)), c,
               Append(acc, SubSeq(s, 1, FirstIndexOf(s, c) - 1)))

\* str::parse::<f64> for the strings of the model: digits with an optional
\* point and fraction digits parse, the empty string and a string holding
\* any other character do not
ParseF64(s) ==
    LET point == FirstIndexOf(s, ".")
        whole == SubSeq(s, 1, point - 1)
        fraction == SubSeq(s, point + 1, Len(s))
    IN  IF /\ Len(whole) + Len(fraction) > 0
           /\ \A i \in 1..Len(whole) : whole[i] \in DOMAIN Digits
           /\ \A i \in 1..Len(fraction) : fraction[i] \in DOMAIN Digits
        THEN Some([n |-> DecimalValue(whole \o fraction, 0),
                   d |-> PowerOfTen(Len(fraction))])
        ELSE None

\* video::parse_ffmpeg_time_to_seconds
parse_ffmpeg_time_to_seconds(time_str) ==
    LET parts == Split(time_str, ":", << >>)
        parsed == [i \in 1..Len(parts) |-> ParseF64(parts[i])]
    IN  IF Len(parts) = 3
        THEN IF parsed[1].some /\ parsed[2].some /\ parsed[3].some
             THEN LET hours == parsed[1].val
                      minutes == parsed[2].val
                      seconds == parsed[3].val
                  IN  Some([n |-> hours.n * 3600 * minutes.d * seconds.d
                                  + minutes.n * 60 * hours.d * seconds.d
                                  + seconds.n * hours.d * minutes.d,
                            d |-> hours.d * minutes.d * seconds.d])
             ELSE None
        ELSE IF Len(parts) = 2
        THEN IF parsed[1].some /\ parsed[2].some
             THEN LET minutes == parsed[1].val
                      seconds == parsed[2].val
                  IN  Some([n |-> minutes.n * 60 * seconds.d + seconds.n * minutes.d,
                            d |-> minutes.d * seconds.d])
             ELSE None
        ELSE None

\* video::calculate_video_progress
calculate_video_progress(current_frame, current_time, metadata) ==
    IF metadata.total_frames.some /\ metadata.total_frames.val > 0
    THEN Some(F64AsU64(F64Min(F64Mul(
             F64Div(current_frame, metadata.total_frames.val), 100), 100)))
    ELSE LET current_seconds == parse_ffmpeg_time_to_seconds(current_time)
         IN  IF /\ current_seconds.some /\ metadata.duration_seconds.some
                /\ metadata.duration_seconds.val.n > 0
             THEN Some(F64AsU64(F64Min(F64Mul(
                      F64Div(current_seconds.val.n * metadata.duration_seconds.val.d,
                             current_seconds.val.d * metadata.duration_seconds.val.n),
                      100), 100)))
             ELSE None

(***************************************************************************)
(* A video entry handed to ffmpeg, step by step (main.rs 793-797 and       *)
(* 821-906, video.rs 222-380): the call is set up, the events of the       *)
(* encoder are taken one at a time, the output file is read, and the       *)
(* caller writes the entry. encoding holds the locals of the call.         *)
(***************************************************************************)
\* the longest event sequence an encoder emits
MaxEvents == 3

VideoMov == VideoDir \o <<"v", ".", "M", "O", "V">>
VideoWmv == VideoDir \o <<"v", ".", "w", "m", "v">>
VideoWebm == VideoDir \o <<"v", ".", "W", "e", "b", "M">>

\* the video entries of a source archive
VideoEntries ==
    {[name |-> p, data |-> EntryData(1)] : p \in {VideoMp4, VideoMov, VideoWmv, VideoWebm}}

IsWhitespace(c) == c \in {" ", "\n", "\t"}

\* str::trim
Trim(s) ==
    LET kept == {i \in 1..Len(s) : ~IsWhitespace(s[i])}
    IN  IF kept = {} THEN << >>
        ELSE SubSeq(s, CHOOSE i \in kept : \A j \in kept : i <= j,
                       CHOOSE i \in kept : \A j \in kept : j <= i)

\* the message of the error the loop ignores (video.rs 342)
NoStreamsFound ==
    <<"N", "o", " ", "s", "t", "r", "e", "a", "m", "s", " ", "f", "o", "u", "n", "d">>

\* the messages of the Error events of the model: the ignored one, bare
\* and with white space around it, a part of it, and another one
ErrorMessages ==
    {NoStreamsFound,
     (<<" ">> \o NoStreamsFound) \o <<"\n">>,
     SubSeq(NoStreamsFound, 1, 10),
     <<"I", "O">>}

\* the time of the Progress events of the model: 7.25 seconds
ProgressTime == <<"0", "0", ":", "0", "0", ":", "0", "7", ".", "2", "5">>

\* the FfmpegEvent values of the model
FfmpegEvents ==
    {[type |-> "Done"], [type |-> "Log"],
     [type |-> "Progress", frame |-> 29, time |-> ProgressTime]}
    \cup {[type |-> "Error", error_msg |-> m] : m \in ErrorMessages}

\* the event sequences `child.iter()` can yield
EventSequences ==
    UNION {[1..n -> FfmpegEvents] : n \in 0..MaxEvents}

\* what extract_video_metadata can return: a frame count, a duration only,
\* or nothing
VideoMetadatas ==
    {[total_frames |-> Some(50), duration_seconds |-> Some([n |-> 2, d |-> 1]),
      fps |-> Some(25)],
     [total_frames |-> None, duration_seconds |-> Some([n |-> 25, d |-> 1]),
      fps |-> None],
     [total_frames |-> None, duration_seconds |-> None, fps |-> None]}

InitVideo ==
    /\ pc = "stream"
    /\ archive_len = 1
    /\ always_compress \in BOOLEAN
    /\ ffmpeg_available = TRUE
    /\ skip_video = FALSE
    /\ video_quality = 75
    /\ image_quality = 85
    /\ audio_quality = 85
    /\ input_pack = PackSiq
    /\ input_exists = TRUE
    /\ skip_image = FALSE
    /\ skip_audio = FALSE
    /\ input_opened = TRUE
    /\ output_created = TRUE
    /\ archive = << >>
    /\ zip_writer = << >>
    /\ sealed = FALSE
    /\ stats = CompressionStats_new
    /\ image_conversions = {}
    /\ content_xml_data = None
    /\ ret = NoCall
    /\ log = << >>
    /\ rewriting = NoRewriting
    /\ encoding = NoEncoding
    /\ result = "running"

\* main.rs 793-797 and 821-829, video.rs 229-331: the entry is read, the
\* progress bar started and compress_video_file called; the call returns
\* an error for a name without a VideoFormat or when a temporary file or
\* the process cannot be set up, and else spawns ffmpeg
StartVideo ==
    /\ AtEntry
    /\ ~(skip_video \/ ~ffmpeg_available)
    /\ \E e \in VideoEntries :
          /\ \A k \in 1..Len(archive) : archive[k].name # e.name
          /\ ReachesVideoBranch(e.name)
          /\ archive' = Append(archive, e)
          /\ log' = Processing(e)
          /\ \/ /\ ~detect_video_format(e.name)
                /\ encoding' = [active |-> TRUE, entry |-> e, spawned |-> FALSE,
                                metadata |-> None, events |-> << >>, next |-> 1,
                                has_error |-> FALSE, error_message |-> << >>,
                                video_progress_bar |-> Some([position |-> 0, ticks |-> 0])]
                /\ ret' = CodecErr
                /\ pc' = "video_result"
             \/ /\ detect_video_format(e.name)
                /\ \E metadata \in {None} \cup {Some(m) : m \in VideoMetadatas},
                      spawned \in BOOLEAN :
                      /\ spawned => metadata.some
                      /\ encoding' =
                                  [active |-> TRUE, entry |-> e, spawned |-> spawned,
                                   metadata |-> metadata, events |-> << >>, next |-> 1,
                                   has_error |-> FALSE, error_message |-> << >>,
                                   video_progress_bar |-> Some([position |-> 0, ticks |-> 0])]
                /\ ret' = CodecErr
                /\ pc' = "video_result"
             \/ /\ detect_video_format(e.name)
                /\ \E metadata \in VideoMetadatas, events \in EventSequences :
                      encoding' = [active |-> TRUE, entry |-> e, spawned |-> TRUE,
                                   metadata |-> Some(metadata), events |-> events,
                                   next |-> 1,
                                   has_error |-> FALSE, error_message |-> << >>,
                                   video_progress_bar |-> Some([position |-> 0, ticks |-> 0])]
                /\ ret' = NoCall
                /\ pc' = "events"
    /\ UNCHANGED <<result, args, rewriting, ffmpeg_available, input_opened,
                   output_created, archive_len, zip_writer, sealed, stats,
                   image_conversions, content_xml_data>>

\* an error handling in which the last Error event decides
HandleErrorLastDecides(enc, error_msg) ==
    [enc EXCEPT !.has_error = (Trim(error_msg) # NoStreamsFound),
                !.error_message = error_msg]

\* video.rs 340-347: the arm of FfmpegEvent::Error
HandleError(enc, error_msg) ==
    IF Trim(error_msg) # NoStreamsFound
    THEN [enc EXCEPT !.has_error = TRUE, !.error_message = error_msg]
    ELSE enc

\* video.rs 348-362: the arm of FfmpegEvent::Progress
HandleProgress(enc, progress) ==
    IF enc.video_progress_bar.some
    THEN LET progress_percent ==
                 calculate_video_progress(progress.frame, progress.time,
                                          enc.metadata.val)
         IN  IF progress_percent.some
             THEN [enc EXCEPT !.video_progress_bar.val.position = progress_percent.val]
             ELSE [enc EXCEPT !.video_progress_bar.val.ticks = @ + 1]
    ELSE enc

\* video.rs 363: FfmpegEvent::Done => break
DoneBreaks(type) == type = "Done"

\* video.rs 333-366: one turn of `for event in iter`
TakeEvent ==
    /\ pc = "events"
    /\ encoding.next <= Len(encoding.events)
    /\ LET event == encoding.events[encoding.next]
           taken == [encoding EXCEPT !.next = @ + 1]
       IN  /\ encoding' =
                 CASE event.type = "Error" -> HandleError(taken, event.error_msg)
                   [] event.type = "Progress" -> HandleProgress(taken, event)
                   [] OTHER -> taken
           /\ log' = IF event.type = "Error" /\ Trim(event.error_msg) # NoStreamsFound
                     THEN Append(log, <<"warn: FFmpeg Error", Trim(event.error_msg)>>)
                     ELSE log
           /\ pc' = IF DoneBreaks(event.type) THEN "read_output" ELSE "events"
    /\ UNCHANGED <<result, args, rewriting, ffmpeg_available, input_opened,
                   output_created, archive_len, archive, zip_writer, sealed,
                   stats, image_conversions, content_xml_data, ret>>

\* video.rs 333: the iterator yields no further event
EventsEnd ==
    /\ pc = "events"
    /\ encoding.next > Len(encoding.events)
    /\ pc' = "read_output"
    /\ UNCHANGED <<result, args, rewriting, encoding, ffmpeg_available, input_opened,
                   output_created, archive_len, archive, zip_writer, sealed,
                   stats, image_conversions, content_xml_data, ret, log>>

\* video.rs 368-379: the error seen is returned, or the output file is
\* read, which fails or gives the bytes ffmpeg has left in it
ReadOutput ==
    /\ pc = "read_output"
    /\ IF encoding.has_error
       THEN ret' = CodecErr
       ELSE ret' \in {CodecErr}
                     \cup {CodecOk(c, encoding.entry.data) :
                              c \in CompressedOutputs(encoding.entry.data)}
    /\ pc' = "video_result"
    /\ UNCHANGED <<result, args, rewriting, encoding, ffmpeg_available, input_opened,
                   output_created, archive_len, archive, zip_writer, sealed,
                   stats, image_conversions, content_xml_data, log>>

\* main.rs 831-904: `match video_result`; the progress bar is cleared and
\* the entry written
WriteVideo ==
    /\ pc = "video_result"
    /\ LET e == encoding.entry
       IN  IF ret.ok
           THEN IF ~Accept(ret.original_size, ret.compressed_size, always_compress)
                THEN /\ zip_writer' = WriteEntry(zip_writer, e.name, e.data)
                     /\ stats' = add_kept_original_video(stats, ret.original_size)
                     /\ log' = Append(log, <<"Keeping original", ret.original_size,
                                             ret.compressed_size>>)
                ELSE /\ zip_writer' = WriteEntry(zip_writer, e.name, ret.compressed_data)
                     /\ stats' = add_processed_video(stats, ret.original_size,
                                                     ret.compressed_size)
                     /\ log' = Append(log, <<"HEVC compressed", ret.original_size,
                                             ret.compressed_size>>)
           ELSE /\ zip_writer' = WriteEntry(zip_writer, e.name, e.data)
                /\ stats' = add_skipped_video(stats, Len(e.data))
                /\ log' = Append(log, <<"Video compression failed", e.name>>)
    /\ encoding' = [encoding EXCEPT !.video_progress_bar = None]
    /\ pc' = "stream"
    /\ UNCHANGED <<result, args, rewriting, ffmpeg_available, input_opened,
                   output_created, archive_len, archive, sealed,
                   image_conversions, content_xml_data, ret>>

NextVideo ==
    \/ StartVideo
    \/ TakeEvent
    \/ EventsEnd
    \/ ReadOutput
    \/ WriteVideo

SpecVideo == InitVideo /\ [][NextVideo]_vars

(***************************************************************************)
(* The progress computation on its own (video.rs 174-200, 348-362): the    *)
(* encoder has emitted one Progress event, which the loop takes.           *)
(***************************************************************************)
\* the highest frame number of a Progress event
MaxFrame == 60

\* the time strings of the Progress events: HH:MM:SS and MM:SS with and
\* without a fraction, and strings that do not parse
ProgressTimes ==
    {ProgressTime,
     <<"0", "0", ":", "0", "0", ":", "1", "5", ".", "0", "0">>,
     <<"0", "0", ":", "0", "1", ":", "1", "5", ".", "0", "0">>,
     <<"0", "1", ":", "0", "0", ":", "0", "0">>,
     <<"0", "0", ":", "1", "4", ".", "5", "0">>,
     <<"0", ":", "0">>,
     <<"i", "n", "v", "a", "l", "i", "d">>,
     <<"N", "/", "A">>,
     << >>,
     <<"0", "0", ":", ":", "0", "5">>,
     <<"1", ":", "2", ":", "3", ":", "4">>}

\* the metadata of the video: the frame count unknown, zero or known, the
\* duration unknown, zero or known
ProgressMetadatas ==
    {[total_frames |-> t, duration_seconds |-> d, fps |-> None] :
        t \in {None, Some(0), Some(50), Some(40)},
        d \in {None, Some([n |-> 0, d |-> 1]), Some([n |-> 25, d |-> 1]),
               Some([n |-> 60, d |-> 1])}}

InitProgress ==
    /\ pc = "events"
    /\ \E frame \in 0..MaxFrame, time \in ProgressTimes, metadata \in ProgressMetadatas :
          encoding = [active |-> TRUE,
                      entry |-> [name |-> VideoMp4, data |-> EntryData(1)],
                      spawned |-> TRUE, metadata |-> Some(metadata),
                      events |-> <<[type |-> "Progress", frame |-> frame,
                                    time |-> time]>>,
                      next |-> 1, has_error |-> FALSE, error_message |-> << >>,
                      video_progress_bar |-> Some([position |-> 0, ticks |-> 0])]
    /\ archive_len = 1
    /\ archive = <<[name |-> VideoMp4, data |-> EntryData(1)]>>
    /\ log = <<<<"Processing", VideoMp4>>>>
    /\ always_compress = FALSE
    /\ ffmpeg_available = TRUE
    /\ skip_video = FALSE
    /\ video_quality = 75
    /\ image_quality = 85
    /\ audio_quality = 85
    /\ input_pack = PackSiq
    /\ input_exists = TRUE
    /\ skip_image = FALSE
    /\ skip_audio = FALSE
    /\ input_opened = TRUE
    /\ output_created = TRUE
    /\ zip_writer = << >>
    /\ sealed = FALSE
    /\ stats = CompressionStats_new
    /\ image_conversions = {}
    /\ content_xml_data = None
    /\ ret = NoCall
    /\ rewriting = NoRewriting
    /\ result = "running"

NextProgress ==
    \/ TakeEvent
    \/ EventsEnd

SpecProgress == InitProgress /\ [][NextProgress]_vars

(***************************************************************************)
(* What the claims below speak of.                                         *)
(***************************************************************************)
\* the source entries read so far that are not content.xml, in read order
StreamedEntries == SelectSeq(archive, LAMBDA e : ~is_content_xml(e.name))

\* the source entry content.xml was read
ManifestRead == \E k \in 1..Len(archive) : is_content_xml(archive[k].name)

\* the run returned Ok(())
Succeeded == pc = "done" /\ result = "Ok"

\* this step read one more source entry
ReadsEntry == Len(archive') = Len(archive) + 1 /\ SubSeq(archive', 1, Len(archive)) = archive

\* this step wrote exactly one more destination entry
WritesOneEntry ==
    /\ Len(zip_writer') = Len(zip_writer) + 1
    /\ SubSeq(zip_writer', 1, Len(zip_writer)) = zip_writer

\* the number of outcomes the statistics have counted
OutcomesCounted(st) ==
    st.images_processed + st.images_kept_original + st.images_skipped
    + st.audio_processed + st.audio_kept_original + st.audio_skipped
    + st.video_processed + st.video_kept_original + st.video_skipped

\* the destination entry w is the source entry e under its own path or under
\* the path recorded for it in the registry
WrittenFor(w, e) ==
    w.name = e.name \/ <<e.name, w.name>> \in image_conversions

\* C1: on every successful run the destination entries other than
\* content.xml are, one for one and in the same order, the source entries
\* other than content.xml in the order they were read, and content.xml, when
\* the source has it, is the last entry written, wherever it was read.
C1_WriteOrderIsReadOrder ==
    Succeeded =>
        LET n == Len(StreamedEntries)
        IN  /\ Len(zip_writer) = n + (IF ManifestRead THEN 1 ELSE 0)
            /\ \A i \in 1..n :
                  /\ WrittenFor(zip_writer[i], StreamedEntries[i])
                  /\ ~is_content_xml(zip_writer[i].name)
            /\ ManifestRead => is_content_xml(zip_writer[n + 1].name)

\* a successful run that read content.xml first and two more entries after it
C1_Witness ==
    /\ Succeeded
    /\ Len(archive) = 3
    /\ is_content_xml(archive[1].name)
    /\ is_content_xml(zip_writer[3].name)
    /\ zip_writer[1].name # zip_writer[2].name

\* C2: a step that reads a source entry other than content.xml writes
\* exactly one destination entry and updates the statistics exactly once (the
\* entry's size is added once to total_input_size, and one outcome is counted
\* for a media entry, none for any other); a step that reads content.xml
\* writes nothing; the only other write is the one of content.xml after the
\* loop; a successful run has written as many entries as it read.
C2_OneOutcomePerEntry ==
    /\ [][/\ ReadsEntry =>
               LET e == archive'[Len(archive')]
               IN  /\ stats'.total_input_size = stats.total_input_size + Len(e.data)
                   /\ IF is_content_xml(e.name)
                      THEN /\ zip_writer' = zip_writer
                           /\ OutcomesCounted(stats') = OutcomesCounted(stats)
                      ELSE /\ WritesOneEntry
                           /\ OutcomesCounted(stats') = OutcomesCounted(stats)
                                 + (IF Kind(e.name) = "Other" THEN 0 ELSE 1)
          /\ (zip_writer' # zip_writer /\ ~ReadsEntry) =>
               /\ pc = "stream" /\ pc' = "finish"
               /\ WritesOneEntry
               /\ is_content_xml(zip_writer'[Len(zip_writer')].name)
               /\ \A k \in 1..Len(zip_writer) : ~is_content_xml(zip_writer[k].name)
          /\ (stats' # stats /\ ~ReadsEntry) => zip_writer' # zip_writer
         ]_vars
    /\ [](Succeeded => Len(zip_writer) = Len(archive))

\* a successful run over content.xml, an image and an audio entry, each
\* media entry counted once
C2_Witness ==
    /\ Succeeded
    /\ Len(archive) = 3 /\ Len(zip_writer) = 3
    /\ ManifestRead
    /\ OutcomesCounted(stats) = 2
    /\ stats.audio_skipped = 1

\* the counters of the kind of the entry named name: processed, kept, skipped
KindCounters(st, name) ==
    CASE is_image(name) -> <<st.images_processed, st.images_kept_original, st.images_skipped>>
      [] is_audio(name) -> <<st.audio_processed, st.audio_kept_original, st.audio_skipped>>
      [] OTHER -> <<st.video_processed, st.video_kept_original, st.video_skipped>>

\* C3: a step whose codec call returns an error writes the entry's original
\* bytes under its original path, adds one to the skipped counter of the
\* entry's kind and leaves the kind's other counters alone, records no
\* rename, and leaves the run in the loop without an error.
C3_CodecErrorKeepsOriginal ==
    [][(ReadsEntry /\ ret' = CodecErr) =>
          LET e == archive'[Len(archive')]
              before == KindCounters(stats, e.name)
              after == KindCounters(stats', e.name)
          IN  /\ zip_writer' = Append(zip_writer, [name |-> e.name, data |-> e.data])
              /\ after = <<before[1], before[2], before[3] + 1>>
              /\ image_conversions' = image_conversions
              /\ pc' = "stream" /\ result' = "running"
      ]_vars

\* a successful run in which the image codec and the audio codec each
\* failed for one entry
C3_Witness ==
    /\ Succeeded
    /\ ~skip_image /\ ~skip_audio
    /\ stats.images_skipped = 1
    /\ stats.audio_skipped = 1
    /\ Len(zip_writer) >= 2

\* C4: a step whose codec call succeeds writes the compressed bytes and
\* counts the entry as processed exactly when the compressed size is below
\* the original size or always_compress is set; otherwise it writes the
\* original bytes under the original path and counts the entry as kept. The
\* rule does not depend on the kind of the entry.
C4_AcceptRule ==
    [][(ReadsEntry /\ ret'.ok) =>
          LET e == archive'[Len(archive')]
              w == zip_writer'[Len(zip_writer')]
              before == KindCounters(stats, e.name)
              after == KindCounters(stats', e.name)
          IN  /\ Kind(e.name) \in {"Image", "Audio", "Video"}
              /\ ret'.original_size = Len(e.data)
              /\ IF ret'.compressed_size < ret'.original_size \/ always_compress
                 THEN /\ w.data = ret'.compressed_data
                      /\ w.data # e.data
                      /\ after = <<before[1] + 1, before[2], before[3]>>
                 ELSE /\ w = [name |-> e.name, data |-> e.data]
                      /\ after = <<before[1], before[2] + 1, before[3]>>
      ]_vars

\* a video entry whose compressed size equals its original size was kept,
\* and an image entry whose compressed size is smaller was replaced
C4_Witness ==
    /\ ~always_compress
    /\ ret.ok /\ ret.compressed_size = ret.original_size
    /\ is_video(archive[Len(archive)].name)
    /\ stats.video_kept_original = 1
    /\ stats.images_processed = 1

\* the bare filename the rewriter derives from a path
BareName(path) == StripPrefixOr(path, ImagesDir)

\* the patched content.xml a successful run wrote
Patched == zip_writer[Len(zip_writer)].data

\* the source entry e was replaced: its compressed bytes were written under
\* the path new_path
ReplacedAs(e, new_path) ==
    \E j \in 1..Len(zip_writer) :
        zip_writer[j].name = new_path /\ zip_writer[j].data # e.data

\* the source entry e stays in the destination as it was
WrittenUnchanged(e) ==
    \E j \in 1..Len(zip_writer) : zip_writer[j] = e

\* C5: every pair of the registry has an old path different from its new
\* path and belongs to a source entry that was replaced; an accepted entry
\* written under its own path (Images/1.webp) is not in the registry.
C5_RegistryHoldsOnlyRenames ==
    \A p \in image_conversions :
        /\ p[1] # p[2]
        /\ \E k \in 1..Len(archive) :
              archive[k].name = p[1] /\ ReplacedAs(archive[k], p[2])

\* C6: after a successful run, for every image entry written unchanged
\* under its original path (kept or skipped), no reference to its filename
\* was rewritten: the patched content.xml holds at least as many references
\* to that filename as the source content.xml.
C6_KeptImagesStayReferenced ==
    (Succeeded /\ ManifestRead) =>
        \A k \in 1..Len(archive) :
            (is_image(archive[k].name) /\ WrittenUnchanged(archive[k])) =>
                MatchCount(Patched, Reference(BareName(archive[k].name)))
                    >= MatchCount(content_xml_data.val,
                                 Reference(BareName(archive[k].name)))

\* C7: after a successful run, for every pair (old, new) of the registry,
\* the patched content.xml nowhere holds isRef="True"> followed by the bare
\* filename of old.
C7_NoOldReferenceLeft ==
    (Succeeded /\ ManifestRead) =>
        \A p \in image_conversions :
            MatchCount(Patched, IsRefDq \o BareName(p[1])) = 0

\* C8: the second pass over the output of the first, with the same records,
\* replaces nothing and leaves the text as it was.
C8_SecondPassChangesNothing ==
    (pc = "rewrite" /\ Len(zip_writer) = 2) =>
        /\ zip_writer[2].data = zip_writer[1].data
        /\ stats.total_updated_refs = 0

\* the sum of the byte lengths of the entries of a sequence
RECURSIVE TotalBytes(_)
TotalBytes(entries) ==
    IF entries = << >> THEN 0
    ELSE Len(Head(entries).data) + TotalBytes(Tail(entries))

\* C9: after a successful run, total_output_size is the sum of the byte
\* lengths of the entries written, the patched content.xml among them, and
\* total_input_size is the sum of the byte lengths of the source entries.
C9_TotalsAreBytesWritten ==
    Succeeded =>
        /\ stats.total_output_size = TotalBytes(zip_writer)
        /\ stats.total_input_size = TotalBytes(archive)

QualityErrors == {"ImageQuality", "AudioQuality", "VideoQuality"}

\* the three qualities of the run are inside [1, 100]
QualitiesInside ==
    /\ image_quality \in 1..100
    /\ audio_quality \in 1..100
    /\ video_quality \in 1..100

\* C10: the range check accepts exactly 1..100 among the 8-bit values; a
\* run with a quality outside that range never gets past the validation, so
\* it ends with a configuration error with the input not opened, the output
\* not created and no entry read or written; a run whose three qualities are
\* inside the range never ends with a quality error.
C10_QualityCheckedBeforeIO ==
    /\ \A q \in 0..255 : QualityInRange(q) <=> q \in 1..100
    /\ ~QualitiesInside =>
          /\ pc \in {"validate_input", "detect_ffmpeg", "validate_quality", "done"}
          /\ ~input_opened /\ ~output_created
          /\ archive = << >> /\ zip_writer = << >>
          /\ pc = "done" =>
                result \in QualityErrors \cup {"InputNotFound", "InvalidSiqFile"}
          /\ (pc = "done" /\ result \notin {"InputNotFound", "InvalidSiqFile"}) =>
                result = IF image_quality \notin 1..100 THEN "ImageQuality"
                         ELSE IF audio_quality \notin 1..100 THEN "AudioQuality"
                         ELSE "VideoQuality"
    /\ QualitiesInside => result \notin QualityErrors

\* a run called with video quality 0 and the other two inside the range
\* ended with the video quality error
C10_Witness ==
    /\ pc = "done"
    /\ result = "VideoQuality"
    /\ video_quality = 0
    /\ image_quality = 85 /\ audio_quality = 85
    /\ ~input_opened /\ ~output_created

\* the path is named <something>.siq, in exactly these letters
NamedDotSiq(path) ==
    /\ Len(path) > 4
    /\ SubSeq(path, Len(path) - 3, Len(path)) = <<".">> \o ExtSiq
    /\ path[Len(path) - 4] # "/"

\* nothing of the source or the destination archive was touched
NoArchiveIO ==
    /\ ~input_opened /\ ~output_created
    /\ archive = << >> /\ zip_writer = << >> /\ ~sealed

InputErrors == {"InputNotFound", "InvalidSiqFile"}

\* C11: a run whose input path does not exist, or is not named *.siq in
\* exactly these letters, never gets past the input validation: it ends with
\* InputNotFound when the path does not exist (whatever its extension and the
\* qualities), with InvalidSiqFile when it exists with another extension
\* (whatever the qualities), and the source archive is not opened, no
\* destination file is created and no entry is read or written. A run whose
\* input exists and is named *.siq never ends with either error.
C11_InputCheckedBeforeIO ==
    /\ (~input_exists \/ ~NamedDotSiq(input_pack)) =>
          /\ pc \in {"validate_input", "done"}
          /\ NoArchiveIO
          /\ log = << >>
          /\ pc = "done" =>
                result = IF ~input_exists THEN "InputNotFound" ELSE "InvalidSiqFile"
    /\ (input_exists /\ NamedDotSiq(input_pack)) => result \notin InputErrors

\* a run called with a missing input named p.SIQ and an image quality of 0
\* ended with InputNotFound; nothing was opened or created
C11_Witness ==
    /\ pc = "done"
    /\ result = "InputNotFound"
    /\ ~input_exists
    /\ input_pack = <<"p", ".", "S", "I", "Q">>
    /\ image_quality = 0
    /\ NoArchiveIO

\* the number of lines of the log equal to line
LogCount(line) == Cardinality({k \in 1..Len(log) : log[k] = line})

\* the number of media entries (image, audio, video) among the entries read
MediaRead ==
    Cardinality({k \in 1..Len(archive) :
                    Kind(archive[k].name) \in {"Image", "Audio", "Video"}})

\* the run got past the loop and the content.xml branch: it is about to seal
\* the archive, or the sealing succeeded or failed
PastLoop == pc = "finish" \/ (pc = "done" /\ result \in {"Ok", "FinishFailed"})

\* C12: when the loop ends and no content.xml was read, the next step
\* logs the warning, writes nothing, leaves the statistics alone and goes on
\* to the sealing without an error; a run that succeeded without content.xml
\* sealed the archive, wrote every source entry once and in order, counted
\* one outcome per media entry, wrote no content.xml, logged the warning
\* once and has an updated-reference count of 0.
C12_NoManifestStillCompletes ==
    /\ [][(AfterLoop /\ ~ManifestRead) =>
             /\ pc' = "finish" /\ result' = "running"
             /\ log' = Append(log, NoManifestWarning)
             /\ zip_writer' = zip_writer /\ stats' = stats
         ]_vars
    /\ []((PastLoop /\ ~ManifestRead) =>
             /\ Len(archive) = archive_len
             /\ LogCount(NoManifestWarning) = 1
             /\ stats.total_updated_refs = 0
             /\ Len(zip_writer) = Len(archive)
             /\ \A i \in 1..Len(zip_writer) :
                   /\ WrittenFor(zip_writer[i], archive[i])
                   /\ ~is_content_xml(zip_writer[i].name)
             /\ OutcomesCounted(stats) = MediaRead
             /\ result = "Ok" => sealed)

\* a run over three entries, none of them content.xml, succeeded: an image
\* was converted and renamed, the warning is in the log
C12_Witness ==
    /\ Succeeded /\ sealed
    /\ ~ManifestRead
    /\ Len(archive) = 3 /\ Len(zip_writer) = 3
    /\ stats.images_processed >= 1
    /\ image_conversions # {}
    /\ log[Len(log) - 1] = NoManifestWarning

\* the capability warnings of the encoder lookup (main.rs 495, 508)
CapabilityWarnings ==
    LogCount(<<"warn: ffmpeg path does not exist">>)
    + LogCount(<<"warn: ffmpeg not found">>)

\* the encoder lookup ran
FfmpegDetected == pc \notin {"validate_input", "detect_ffmpeg"} /\ result \notin InputErrors

\* C13: once the lookup found no encoder, with skip_video unset, every
\* video entry read is passed through: none of the video counters (skipped
\* among them) is incremented, the entry is in the destination with its own
\* path and bytes, no encoder call was made for it, and the log holds exactly
\* one capability warning however many video entries were read.
C13_NoEncoderPassesThrough ==
    (FfmpegDetected /\ ~ffmpeg_available /\ ~skip_video) =>
        /\ stats.video_skipped = 0
        /\ stats.video_processed = 0
        /\ stats.video_kept_original = 0
        /\ \A k \in 1..Len(archive) :
              Kind(archive[k].name) = "Video" => WrittenUnchanged(archive[k])
        /\ (archive # << >> /\ Kind(archive[Len(archive)].name) = "Video") =>
              ret = NoCall
        /\ CapabilityWarnings = 1

\* the nine outcome counters of the statistics
Counters(st) ==
    <<st.images_processed, st.images_kept_original, st.images_skipped,
      st.audio_processed, st.audio_kept_original, st.audio_skipped,
      st.video_processed, st.video_kept_original, st.video_skipped>>

\* the skip flag of the kind of the entry named name; FALSE for the kinds
\* that have none
SkipFlag(name) ==
    CASE Kind(name) = "Image" -> skip_image
      [] Kind(name) = "Audio" -> skip_audio
      [] Kind(name) = "Video" -> skip_video
      [] OTHER -> FALSE

\* C14: a step that reads an entry whose kind has its skip flag set, or an
\* entry of kind Other, calls no codec, writes the entry with its own path and
\* bytes, and changes none of the processed, kept-original and skipped
\* counters.
C14_SkipFlagPassesThrough ==
    [][ReadsEntry =>
          LET e == archive'[Len(archive')]
          IN  (SkipFlag(e.name) \/ Kind(e.name) = "Other") =>
                  /\ ret' = NoCall
                  /\ zip_writer' = Append(zip_writer, e)
                  /\ Counters(stats') = Counters(stats)
      ]_vars

\* C15: a step of the loop that does not get its entry (by_index or the
\* read failed) ends the run with the read error and changes nothing else; no
\* step follows it. In the state it leaves, the entries read and written are
\* the ones before the failure, content.xml was not written, the archive is
\* not sealed and no statistics report was logged.
C15_ReadErrorAborts ==
    /\ [][/\ (AtEntry /\ archive' = archive) =>
                /\ pc' = "done" /\ result' = "ReadFailed"
                /\ UNCHANGED <<zip_writer, sealed, stats, image_conversions,
                               content_xml_data, log>>
          /\ result # "ReadFailed"
         ]_vars
    /\ [](result = "ReadFailed" =>
             /\ pc = "done"
             /\ Len(archive) < archive_len
             /\ Len(zip_writer) = Len(StreamedEntries)
             /\ \A k \in 1..Len(zip_writer) : ~is_content_xml(zip_writer[k].name)
             /\ ~sealed
             /\ LogCount(SummaryLine) = 0)

\* the read of the third entry failed after content.xml and one more entry
\* were read: one entry is written, content.xml is not
C15_Witness ==
    /\ pc = "done" /\ result = "ReadFailed"
    /\ archive_len = 3 /\ Len(archive) = 2
    /\ ManifestRead
    /\ Len(zip_writer) = 1
    /\ ~sealed

\* every source entry was processed and content.xml, when the source has
\* it, is the last entry written
AllWritten ==
    /\ Len(archive) = archive_len
    /\ Len(zip_writer) = Len(archive)
    /\ ManifestRead => is_content_xml(zip_writer[Len(zip_writer)].name)

\* C16: the step that seals the archive is the step from the sealing to
\* the end of the run that returns Ok, and it writes no entry; no step starts
\* in a sealed state, so the archive is sealed at most once and nothing is
\* written after it. The run reaches the sealing, and is sealed, only with
\* every source entry processed and the patched content.xml (if any) written;
\* it returns Ok only when sealed.
C16_SealedOnceAtTheEnd ==
    /\ [][/\ ~sealed
          /\ sealed' =>
                /\ pc = "finish" /\ pc' = "done" /\ result' = "Ok"
                /\ zip_writer' = zip_writer
         ]_vars
    /\ []((pc = "finish" \/ sealed) => AllWritten)
    /\ [](sealed => Succeeded)
    /\ [](result = "Ok" => sealed)

\* a sealed archive of three entries with the patched content.xml, which
\* was read first, written last
C16_Witness ==
    /\ sealed
    /\ Len(archive) = 3
    /\ is_content_xml(archive[1].name)
    /\ is_content_xml(zip_writer[3].name)
    /\ stats.total_updated_refs > 0

\* a lower-case letter with its upper-case letter
CasePairs ==
    {<<"j", "J">>, <<"p", "P">>, <<"g", "G">>, <<"e", "E">>, <<"n", "N">>,
     <<"w", "W">>, <<"b", "B">>, <<"m", "M">>, <<"o", "O">>, <<"v", "V">>,
     <<"a", "A">>, <<"i", "I">>, <<"k", "K">>}

\* the same character, or the same letter in the other case
SameLetter(c, d) == c = d \/ <<c, d>> \in CasePairs \/ <<d, c>> \in CasePairs

\* the path ends with a dot and the letters of ext in any case, the dot not
\* being the first character of the file name
EndsWithExtension(path, ext) ==
    LET d == Len(path) - Len(ext)
    IN  /\ d > 1
        /\ path[d] = "."
        /\ path[d - 1] # "/"
        /\ \A k \in 1..Len(ext) : SameLetter(path[d + k], ext[k])

\* a path under the directory dir whose extension is one of exts, compared
\* without regard to case
UnderWithExtension(path, dir, exts) ==
    /\ Len(path) >= Len(dir)
    /\ \A k \in 1..Len(dir) : path[k] = dir[k]
    /\ \E x \in exts : EndsWithExtension(path, x)

\* the kinds a path has by the classification rules
KindsOf(path) ==
    {k \in {"Manifest", "Image", "Audio", "Video", "Other"} :
        CASE k = "Manifest" -> path = ContentXmlName
          [] k = "Image" ->
                /\ path # ContentXmlName
                /\ UnderWithExtension(path, ImagesDir,
                      {<<"j", "p", "g">>, <<"j", "p", "e", "g">>, <<"p", "n", "g">>,
                       <<"w", "e", "b", "p">>})
          [] k = "Audio" ->
                /\ path # ContentXmlName
                /\ UnderWithExtension(path, AudioDir, {<<"m", "p", "3">>})
          [] k = "Video" ->
                /\ path # ContentXmlName
                /\ UnderWithExtension(path, VideoDir,
                      {<<"m", "p", "4">>, <<"m", "o", "v">>, <<"a", "v", "i">>,
                       <<"m", "k", "v">>, <<"w", "m", "v">>, <<"w", "e", "b", "m">>})
          [] OTHER ->
                /\ path # ContentXmlName
                /\ ~UnderWithExtension(path, ImagesDir,
                      {<<"j", "p", "g">>, <<"j", "p", "e", "g">>, <<"p", "n", "g">>,
                       <<"w", "e", "b", "p">>})
                /\ ~UnderWithExtension(path, AudioDir, {<<"m", "p", "3">>})
                /\ ~UnderWithExtension(path, VideoDir,
                      {<<"m", "p", "4">>, <<"m", "o", "v">>, <<"a", "v", "i">>,
                       <<"m", "k", "v">>, <<"w", "m", "v">>, <<"w", "e", "b", "m">>})}

\* two paths that differ at most in the letter case of their extension
SameButExtensionCase(a, b) ==
    /\ Len(a) = Len(b)
    /\ LET d == LastIndexOf(a, ".")
       IN  /\ d > 0
           /\ \A k \in 1..d : a[k] = b[k]
           /\ \A k \in (d + 1)..Len(a) : SameLetter(a[k], b[k])

\* C17: every name classified has exactly one kind by the rules (Manifest
\* iff it is content.xml; else Image, Audio, Video by directory prefix and
\* extension compared without regard to case; else Other), the branch taken
\* for it is that kind, and two names that differ only in the letter case of
\* the extension take the same branch.
C17_ClassificationByPrefixAndExtension ==
    /\ Len(log) = Len(archive)
    /\ \A k \in 1..Len(archive) :
          /\ Cardinality(KindsOf(archive[k].name)) = 1
          /\ log[k][1] \in KindsOf(archive[k].name)
    /\ \A j, k \in 1..Len(archive) :
          SameButExtensionCase(archive[j].name, archive[k].name) => log[j] = log[k]

\* Images/a.jpg and Images/a.JPG were both classified Image
C17_Witness ==
    /\ Len(archive) = 2
    /\ archive[1].name = ImagesDir \o <<"a", ".", "j", "p", "g">>
    /\ archive[2].name = ImagesDir \o <<"a", ".", "J", "P", "G">>
    /\ log = << <<"Image">>, <<"Image">> >>

\* this step had the outcome Replaced for the entry e: the codec result was
\* accepted, its bytes were written and the entry counted as processed
ReplacedStep(e) ==
    /\ ret'.ok
    /\ zip_writer'[Len(zip_writer')].data = ret'.compressed_data
    /\ KindCounters(stats', e.name)[1] = KindCounters(stats, e.name)[1] + 1

\* C18: a step that reads an audio, video or Other entry writes it under
\* exactly its source path, whatever the outcome, and leaves the registry
\* alone; a step that writes an entry under a path different from its source
\* path, or that records a pair in the registry, read an image entry with the
\* outcome Replaced, and the pair recorded is (source path, written path); no
\* other step changes the registry. Every pair of the registry belongs to an
\* image entry that was replaced.
C18_OnlyImagesAreRenamed ==
    /\ [][IF ReadsEntry /\ ~is_content_xml(archive'[Len(archive')].name)
          THEN LET e == archive'[Len(archive')]
                   w == zip_writer'[Len(zip_writer')]
               IN  /\ WritesOneEntry
                   /\ Kind(e.name) \in {"Audio", "Video", "Other"} =>
                         /\ w.name = e.name
                         /\ image_conversions' = image_conversions
                   /\ w.name # e.name => (Kind(e.name) = "Image" /\ ReplacedStep(e))
                   /\ image_conversions' # image_conversions =>
                         /\ Kind(e.name) = "Image" /\ ReplacedStep(e)
                         /\ image_conversions' = image_conversions \cup {<<e.name, w.name>>}
          ELSE image_conversions' = image_conversions
         ]_vars
    /\ [](\A p \in image_conversions :
             \E k \in 1..Len(archive) :
                 /\ archive[k].name = p[1]
                 /\ Kind(p[1]) = "Image"
                 /\ ReplacedAs(archive[k], p[2]))

\* a successful run that replaced an image, a video and an audio entry: the
\* image was written under a new path and recorded, the other two were
\* written under their own paths
C18_Witness ==
    /\ Succeeded
    /\ Len(archive) = 3
    /\ stats.images_processed = 1
    /\ stats.video_processed = 1
    /\ stats.audio_processed = 1
    /\ image_conversions = {<<Image1Jpg, ImagesDir \o <<"1", ".", "w", "e", "b", "p">> >>}
    /\ zip_writer[1].name = Image1Webp
    /\ zip_writer[2].name = VideoMp4
    /\ zip_writer[3].name = AudioMp3

\* the bitrates of the encoder, in kbps
Bitrates == {64, 80, 96, 128, 160, 192, 224, 256, 320}

\* the quality the mappings work with: the nearest value of 1..100
Clamped(q) == IF q < 1 THEN 1 ELSE IF q > 100 THEN 100 ELSE q

\* C19: for every 8-bit quality the bitrate computed is one of the
\* encoder's bitrates and the CRF computed is in 18..51; a quality outside
\* 1..100 gives what the nearest of 1 and 100 gives; the bitrate is 64 for
\* 1..15 and 320 for 96..100, the CRF 51 for 1 and 18 for 100; no lower
\* quality has a higher bitrate or a lower CRF than the one computed; and
\* computing again gives the same value.
C19_QualityMappingsMonotonic ==
    /\ Len(log) >= 1 =>
          LET b == log[1][2]
          IN  /\ log[1][1] = "bitrate"
              /\ b \in Bitrates
              /\ b = quality_to_mp3_bitrate(audio_quality)
              /\ b = quality_to_mp3_bitrate(Clamped(audio_quality))
              /\ Clamped(audio_quality) \in 1..15 => b = 64
              /\ Clamped(audio_quality) \in 96..100 => b = 320
              /\ \A lower \in 0..audio_quality : quality_to_mp3_bitrate(lower) <= b
              /\ \A higher \in audio_quality..255 : quality_to_mp3_bitrate(higher) >= b
    /\ Len(log) >= 2 =>
          LET c == log[2][2]
          IN  /\ log[2][1] = "crf"
              /\ c \in 18..51
              /\ c = quality_to_crf(video_quality)
              /\ c = quality_to_crf(Clamped(video_quality))
              /\ Clamped(video_quality) = 1 => c = 51
              /\ Clamped(video_quality) = 100 => c = 18
              /\ \A lower \in 0..video_quality : quality_to_crf(lower) >= c
              /\ \A higher \in video_quality..255 : quality_to_crf(higher) <= c

\* the audio quality 255 was mapped like 100, to 320 kbps, and the default
\* video quality 75 to the CRF 27
C19_Witness ==
    /\ pc = "done"
    /\ audio_quality = 255
    /\ video_quality = 75
    /\ log = << <<"bitrate", 320>>, <<"crf", 27>> >>

\* every position of s where p occurs, character by character
LiteralOccurrences(s, p) ==
    {i \in 1..(Len(s) - Len(p) + 1) : \A k \in 1..Len(p) : s[i + k - 1] = p[k]}

\* the sum of the tallies of the records logged as updated
RECURSIVE SumTallies(_)
SumTallies(lines) ==
    IF lines = << >> THEN 0
    ELSE (IF Head(lines)[1] = "Updated" THEN Head(lines)[3] ELSE 0)
         + SumTallies(Tail(lines))

\* the lines of the log about a record without a reference
NoRefsWarnings == {k \in 1..Len(log) : log[k][1] = "Warning: No refs found"}

\* C20: a step that tries a pattern pair (old, new) with old # new and
\* n > 0 occurrences of old in the current text replaces each of the n
\* occurrences by new (the text grows by n times the difference of the
\* lengths, new stands where each occurrence stood, old occurs no more) and
\* adds n to the tally of the record; a pair with old = new or without an
\* occurrence leaves text and tally alone. The step that finishes a record
\* adds its tally to the count and logs a warning exactly when the tally is
\* zero, without an error. After the write, total_updated_refs is the sum of
\* the tallies of all records, one line is logged per record, the text
\* written is the text the steps produced, and both agree with the pass of
\* the run as a whole.
C20_TalliesCountReplacements ==
    /\ [][/\ (AtRecord /\ rewriting.pattern <= Len(CurrentPatterns)) =>
                LET old == CurrentPatterns[rewriting.pattern][1]
                    new == CurrentPatterns[rewriting.pattern][2]
                    xml == rewriting.xml_content
                    occ == LiteralOccurrences(xml, old)
                    n == Cardinality(occ)
                    grow == Len(new) - Len(old)
                IN  /\ IF old # new /\ n > 0
                       THEN /\ rewriting'.file_replacements =
                                  rewriting.file_replacements + n
                            /\ Len(rewriting'.xml_content) = Len(xml) + n * grow
                            /\ \A i \in occ :
                                  MatchAt(rewriting'.xml_content, new,
                                          i + grow * Cardinality({j \in occ : j < i}))
                            /\ LiteralOccurrences(rewriting'.xml_content, old) = {}
                       ELSE /\ rewriting'.xml_content = xml
                            /\ rewriting'.file_replacements = rewriting.file_replacements
                    /\ rewriting'.updated_refs = rewriting.updated_refs
                    /\ UNCHANGED <<log, stats, pc, result>>
          /\ (AtRecord /\ rewriting.pattern > Len(CurrentPatterns)) =>
                /\ rewriting'.updated_refs =
                      rewriting.updated_refs + rewriting.file_replacements
                /\ rewriting'.xml_content = rewriting.xml_content
                /\ Len(log') = Len(log) + 1
                /\ (Len(log') \in NoRefsWarnings') <=> rewriting.file_replacements = 0
                /\ UNCHANGED <<stats, pc, result>>
         ]_vars
    /\ [](pc = "finish" =>
             /\ result = "running"
             /\ stats.total_updated_refs = SumTallies(log)
             /\ Len(log) = Cardinality(image_conversions) + 2
             /\ Patched = rewriting.xml_content
             /\ LET rw == Rewrite(content_xml_data.val, rewriting.order)
                IN  /\ Patched = rw.xml
                    /\ stats.total_updated_refs = rw.updated_refs
                    /\ log = (<<UpdatingLine>> \o RewriteLog(rewriting.order, rw.per_file))
                               \o << <<"Updated image references", rw.updated_refs>> >>)

\* a pass over a text that references 1.jpg twice, with the records of
\* 1.jpg and p.jpg: two references were replaced and counted, and the record
\* of p.jpg, with a tally of zero, was logged as a warning
C20_Witness ==
    /\ pc = "finish"
    /\ content_xml_data.val =
          Reference(<<"1", ".", "j", "p", "g">>) \o Reference(<<"1", ".", "j", "p", "g">>)
    /\ Patched =
          Reference(<<"1", ".", "w", "e", "b", "p">>)
          \o Reference(<<"1", ".", "w", "e", "b", "p">>)
    /\ stats.total_updated_refs = 2
    /\ Cardinality(image_conversions) = 2
    /\ \E k \in NoRefsWarnings : log[k][2] = <<"p", ".", "j", "p", "g">>

\* the values the tests of video.rs expect (video.rs 415-427)
CrfExpected == (0 :> 51) @@ (1 :> 51) @@ (30 :> 42) @@ (50 :> 35)
               @@ (80 :> 25) @@ (100 :> 18) @@ (101 :> 18)

FirstDone ==
    IF \E i \in 1..Len(encoding.events) : encoding.events[i].type = "Done"
    THEN CHOOSE i \in 1..Len(encoding.events) :
            /\ encoding.events[i].type = "Done"
            /\ \A j \in 1..(i - 1) : encoding.events[j].type # "Done"
    ELSE Len(encoding.events) + 1

\* the message is "No streams found" with nothing but white space before
\* and after it
IsNoStreamsFound(m) ==
    \E a \in 0..(Len(m) - Len(NoStreamsFound)) :
        /\ \A k \in 1..Len(NoStreamsFound) : m[a + k] = NoStreamsFound[k]
        /\ \A k \in 1..a : IsWhitespace(m[k])
        /\ \A k \in (a + Len(NoStreamsFound) + 1)..Len(m) : IsWhitespace(m[k])

\* the places of the Error events whose message is, white space at its ends
\* aside, not "No streams found"
ErrorPlaces ==
    {i \in 1..Len(encoding.events) :
        /\ encoding.events[i].type = "Error"
        /\ ~IsNoStreamsFound(encoding.events[i].error_msg)}

\* the call has returned an error without bytes, and once the caller has
\* written the entry, the destination holds the original bytes of the video
\* under its path and the entry is counted as skipped
FailedAndUnchanged ==
    /\ pc = "video_result" => ret = CodecErr
    /\ (pc = "stream" /\ Len(zip_writer) = 1) =>
          /\ ret = CodecErr
          /\ zip_writer = <<encoding.entry>>
          /\ stats.video_skipped = 1 /\ stats.video_processed = 0
          /\ stats.video_kept_original = 0

\* C22 as stated: whenever the event sequence of the encoder holds, at any
\* place, an Error event whose trimmed message is not "No streams found",
\* compress_video_file returns an error without bytes and the caller writes
\* the original bytes.
C22_AnyErrorFails ==
    (encoding.active /\ encoding.spawned /\ ErrorPlaces # {}) => FailedAndUnchanged

\* C22, amended: whenever the event sequence holds such an Error event at a
\* place before its first Done event (or anywhere, if it holds no Done),
\* compress_video_file returns an error without bytes, whatever events
\* follow the Error, and the caller writes the original bytes of the video.
C22_ErrorBeforeDoneFails ==
    (encoding.active /\ encoding.spawned /\ \E i \in ErrorPlaces : i < FirstDone)
        => FailedAndUnchanged

\* the encoder emitted an error, then a progress event and Done, and its
\* output was smaller than the video; the video was written unchanged
C22_Witness ==
    /\ pc = "stream"
    /\ encoding.active
    /\ encoding.events =
          <<[type |-> "Error", error_msg |-> <<"I", "O">>],
            [type |-> "Progress", frame |-> 29, time |-> ProgressTime],
            [type |-> "Done"]>>
    /\ encoding.has_error
    /\ ret = CodecErr
    /\ zip_writer = <<[name |-> VideoMp4, data |-> EntryData(1)]>>

\* C23: compress_video_file returns Ok only if the event sequence of the
\* encoder held a Done event; when the sequence ends without one, the call
\* returns an error and the video is written unchanged; and the loop over
\* the events has ended exactly when the first Done event or the last event
\* of the sequence was taken.
C23_SuccessOnlyAfterDone ==
    (encoding.active /\ encoding.spawned) =>
        /\ (pc \in {"video_result", "stream"} /\ ret.ok) =>
              FirstDone <= Len(encoding.events)
        /\ FirstDone > Len(encoding.events) => FailedAndUnchanged
        /\ pc \in {"read_output", "video_result", "stream"} =>
              encoding.next = (IF FirstDone <= Len(encoding.events)
                               THEN FirstDone ELSE Len(encoding.events)) + 1
        /\ pc = "events" => encoding.next <= FirstDone

\* C24: the paths of the entries written to the destination archive are
\* pairwise distinct (the paths of the source entries are), also when two
\* accepted images differ in their extension only.
C24_WrittenPathsDistinct ==
    (\A i, j \in 1..Len(archive) : i # j => archive[i].name # archive[j].name)
        => \A i, j \in 1..Len(zip_writer) :
              i # j => zip_writer[i].name # zip_writer[j].name

\* C25: the text written and the count recorded by the pass do not depend
\* on the order in which the loop visits the records of the registry: every
\* order of the same records gives, for the same text, the text and the
\* count of the pass that ran.
C25_OrderDoesNotMatter ==
    pc = "finish" =>
        \A o \in Orders(image_conversions) :
            /\ Rewrite(content_xml_data.val, o).xml = Patched
            /\ Rewrite(content_xml_data.val, o).updated_refs = stats.total_updated_refs

\* C26: no rename is recorded while the image skip flag is set or while no
\* image has been replaced; and when the registry is empty after the loop,
\* the content.xml written is, byte for byte, the content.xml read, and the
\* count of updated references is 0.
C26_NoRenameLeavesManifestAlone ==
    /\ (skip_image \/ stats.images_processed = 0) => image_conversions = {}
    /\ (PastLoop /\ ManifestRead /\ image_conversions = {}) =>
          /\ zip_writer[Len(zip_writer)].name = ContentXmlName
          /\ Patched = content_xml_data.val
          /\ \E k \in 1..Len(archive) :
                archive[k].name = ContentXmlName /\ archive[k].data = Patched
          /\ stats.total_updated_refs = 0

\* a run with the image skip flag set read content.xml and the image
\* Images/1.jpg, which content.xml references, and wrote both as they were
C26_Witness ==
    /\ Succeeded
    /\ skip_image
    /\ ManifestRead
    /\ \E k \in 1..Len(archive) : archive[k].name = Image1Jpg
    /\ image_conversions = {}
    /\ Patched = ManifestText
    /\ stats.total_updated_refs = 0

\* the source entries of a kind handled so far, in read order
KindEntries(kind) == SelectSeq(archive, LAMBDA e : Kind(e.name) = kind)

\* C27: in every state of a run, for each of the kinds image, audio and
\* video, processed + kept original + skipped is the number of entries of
\* the kind handled so far; total_input_size is the sum of the three
\* original sizes and of the bytes of the other and manifest entries handled
\* so far, total_output_size the sum of the three compressed sizes and of
\* those bytes; and no step makes any counter of the statistics smaller.
C27_CountersReconcile ==
    /\ [](/\ stats.images_processed + stats.images_kept_original + stats.images_skipped
               = Len(KindEntries("Image"))
          /\ stats.audio_processed + stats.audio_kept_original + stats.audio_skipped
               = Len(KindEntries("Audio"))
          /\ stats.video_processed + stats.video_kept_original + stats.video_skipped
               = Len(KindEntries("Video"))
          /\ stats.total_input_size =
                stats.image_original_size + stats.audio_original_size
                + stats.video_original_size
                + TotalBytes(KindEntries("Other")) + TotalBytes(KindEntries("Manifest"))
          /\ stats.total_output_size =
                stats.image_compressed_size + stats.audio_compressed_size
                + stats.video_compressed_size
                + TotalBytes(KindEntries("Other")) + TotalBytes(KindEntries("Manifest")))
    /\ [][\A f \in DOMAIN stats : stats'[f] >= stats[f]]_vars

\* a run handled content.xml, an image that was replaced and an audio entry
\* that was kept, and recorded the references it updated
C27_Witness ==
    /\ Succeeded
    /\ ManifestRead
    /\ stats.images_processed = 1
    /\ stats.audio_kept_original = 1
    /\ stats.total_updated_refs >= 1
    /\ stats.total_input_size = TotalBytes(archive)
    /\ stats.total_output_size < stats.total_input_size

\* what a step adds to the processed counter, the original size and the
\* compressed size of each kind
ProcessedGrowth ==
    {<<stats'.images_processed - stats.images_processed,
       stats'.image_original_size - stats.image_original_size,
       stats'.image_compressed_size - stats.image_compressed_size>>,
     <<stats'.audio_processed - stats.audio_processed,
       stats'.audio_original_size - stats.audio_original_size,
       stats'.audio_compressed_size - stats.audio_compressed_size>>,
     <<stats'.video_processed - stats.video_processed,
       stats'.video_original_size - stats.video_original_size,
       stats'.video_compressed_size - stats.video_compressed_size>>}

\* C28: in every state of a run without the force flag, total_output_size
\* is at most total_input_size and, for images, audio and video, the
\* compressed size is at most the original size; and every step of such a
\* run that counts an entry as processed adds less to the compressed size
\* of its kind than to the original size.
C28_OutputNeverLarger ==
    /\ [](~always_compress =>
             /\ stats.total_output_size <= stats.total_input_size
             /\ stats.image_compressed_size <= stats.image_original_size
             /\ stats.audio_compressed_size <= stats.audio_original_size
             /\ stats.video_compressed_size <= stats.video_original_size)
    /\ [][~always_compress =>
             \A g \in ProcessedGrowth : g[1] > 0 => g[3] < g[2]]_vars

\* a run without the force flag replaced an image by fewer bytes and kept an
\* audio entry whose compression gave more bytes
C28_Witness ==
    /\ Succeeded
    /\ ~always_compress
    /\ stats.images_processed = 1
    /\ stats.image_compressed_size < stats.image_original_size
    /\ stats.audio_kept_original = 1
    /\ ret.ok /\ ret.compressed_size > ret.original_size
    /\ stats.total_output_size < stats.total_input_size

\* C29: with ffmpeg available and the skip flag of video unset, the entry
\* read is classified Video and is the entry handed to compress_video_file,
\* and nothing is written before the call has returned; for an entry named
\* *.wmv or *.webm (in any letter case) the call returns an error without
\* having spawned ffmpeg, after which the original bytes are written under
\* the original path and the entry is counted as skipped, once.
C29_UnmappedVideoIsSkipped ==
    /\ (ffmpeg_available /\ ~skip_video /\ Len(archive) >= 1) =>
          /\ Kind(archive[Len(archive)].name) = "Video"
          /\ encoding.active
          /\ encoding.entry = archive[Len(archive)]
          /\ pc # "stream" => zip_writer = << >>
    /\ (encoding.active /\ encoding.entry.name \in {VideoWmv, VideoWebm}) =>
          /\ ~encoding.spawned
          /\ encoding.next = 1
          /\ pc \in {"video_result", "stream"}
          /\ ret = CodecErr
          /\ pc = "stream" =>
                /\ zip_writer = <<encoding.entry>>
                /\ stats.video_skipped = 1
                /\ stats.video_processed = 0 /\ stats.video_kept_original = 0
                /\ stats.total_output_size = Len(encoding.entry.data)

\* the entry Video/v.WebM was handed to the codec, which returned an error
\* without spawning ffmpeg; the entry was written unchanged and counted as
\* skipped
C29_Witness ==
    /\ pc = "stream"
    /\ encoding.active
    /\ encoding.entry.name = VideoWebm
    /\ ~encoding.spawned
    /\ ret = CodecErr
    /\ zip_writer = <<[name |-> VideoWebm, data |-> EntryData(1)]>>
    /\ stats.video_skipped = 1
    /\ log[Len(log)] = <<"Video compression failed", VideoWebm>>

\* the Progress event has been taken
ProgressTaken == pc \in {"events", "read_output"} /\ encoding.next = 2

\* the percentage the bar was set to; none if the bar was ticked instead
ProgressShown ==
    IF encoding.video_progress_bar.val.ticks = 0
    THEN Some(encoding.video_progress_bar.val.position)
    ELSE None

\* the whole part of 100 * n / d, at most 100
Percent(n, d) == IF (100 * n) \div d > 100 THEN 100 ELSE (100 * n) \div d

\* C30: the progress computed for a Progress event is, when given, between
\* 0 and 100. With a frame count above zero it is the whole part of
\* 100 * current_frame / total_frames, at most 100, whatever the time
\* string; otherwise, with a time string HH:MM:SS or MM:SS that parses and a
\* duration above zero, it is the whole part of 100 * seconds / duration, at
\* most 100; in every other case none is given.
C30_ProgressIsFloorOfPercentage ==
    ProgressTaken =>
        LET event == encoding.events[1]
            metadata == encoding.metadata.val
            seconds == parse_ffmpeg_time_to_seconds(event.time)
        IN  /\ ProgressShown.some => ProgressShown.val \in 0..100
            /\ IF metadata.total_frames.some /\ metadata.total_frames.val > 0
               THEN ProgressShown = Some(Percent(event.frame, metadata.total_frames.val))
               ELSE IF /\ seconds.some /\ metadata.duration_seconds.some
                       /\ metadata.duration_seconds.val.n > 0
               THEN ProgressShown =
                       Some(Percent(seconds.val.n * metadata.duration_seconds.val.d,
                                    seconds.val.d * metadata.duration_seconds.val.n))
               ELSE ProgressShown = None
====
